---- MODULE Spec2Model ----
(***************************************************************************)
(* Rule engine of the UNO game in src/src/logic.ts (Rune.initLogic):       *)
(* setup, the four actions playCard / drawCard / passTurn / callUno and    *)
(* the two roster events playerJoined / playerLeft, over one GameState.    *)
(*                                                                         *)
(* Arrays are TLA+ sequences; array index i of the source is position      *)
(* i + 1 here.  The top of deck and of discardPile is the last element     *)
(* (Array.pop / Array.push).  currentPlayerIndex keeps the source's        *)
(* 0-based value.                                                          *)
(***************************************************************************)
EXTENDS Integers, Sequences, FiniteSets, TLC

VARIABLES game, gameOverReports, steps, limit, prev, last, attempt

vars == <<game, gameOverReports, steps, limit, prev, last, attempt>>

-----------------------------------------------------------------------------
(* Bounds of the model.                                                    *)

\* Cards dealt to a player by setup and playerJoined (7 in the source).
HandSize == 2

\* Math.random() is drawn from {0/RandomDen, ..., (RandomDen-1)/RandomDen},
\* one value per call of shuffle.
RandomDen == 4

\* Largest number of wildDrawFour start cards setup redraws in a row.
MaxRedraws == 1

\* Accepted actions and roster events explored after setup.
MaxSteps == 4

\* The same for the games of a single seated player (SoloSpec).
MaxSoloSteps == 5

\* The same for the games that examine setup (SetupSpec), whose shuffle of
\* the fresh deck draws Math.random() from a stream of RandomPeriod values
\* used in rotation.
MaxSetupSteps == 2
RandomPeriod == 2

-----------------------------------------------------------------------------
(* Types of logic.ts.                                                      *)

NoColor == "null"
NoPlayer == "null"
NoCard == [color |-> NoColor, value |-> "null", id |-> -1]

\* The player ids the platform hands to setup and to the events.
PlayerIds == {"p1", "p2", "p3"}

\* The rosters setup is called with (minPlayers 1, bounded to three ids).
Rosters == {<<"p1">>, <<"p1", "p2">>, <<"p1", "p2", "p3">>}

\* selectedColor of a playCard: absent, or a colour of the bounded deck.
SelectedColors == {NoColor, "green"}

\* Colours and per-colour faces createDeck iterates over, bounded: the
\* source has four colours, one "0", two of each "1".."9" and two of each
\* action per colour, and four of each wild.
deckColors == <<"red", "blue", "green">>
colourValues == <<"0", "skip", "reverse", "drawTwo">>
wildValues == <<"wild", "wildDrawFour">>

Min(a, b) == IF a < b THEN a ELSE b

IsDrawCardValue(v) == v = "drawTwo" \/ v = "wildDrawFour"

IsWildValue(v) == v = "wild" \/ v = "wildDrawFour"

\* createDeck: the coloured cards colour by colour, then the wilds, ids
\* numbered by idCounter in order of construction.
createDeck ==
    LET nv == Len(colourValues)
        coloured == [k \in 1..(Len(deckColors) * nv) |->
                        [color |-> deckColors[((k - 1) \div nv) + 1],
                         value |-> colourValues[((k - 1) % nv) + 1],
                         id |-> k - 1]]
        wilds == [k \in 1..Len(wildValues) |->
                        [color |-> NoColor,
                         value |-> wildValues[k],
                         id |-> Len(coloured) + k - 1]]
    IN  coloured \o wilds

CardIds == {createDeck[k].id : k \in 1..Len(createDeck)}

Swap(s, a, b) == [s EXCEPT ![a] = s[b], ![b] = s[a]]

\* The Fisher-Yates loop of shuffle from array index i down to 1, with
\* Math.random() = num / RandomDen: j = floor(random * (i + 1)).
RECURSIVE FisherYates(_, _, _)
FisherYates(deck, i, num) ==
    IF i < 1 THEN deck
    ELSE LET j == (num * (i + 1)) \div RandomDen
         IN  FisherYates(Swap(deck, i + 1, j + 1), i - 1, num)

\* shuffle: the permutations of deck the bounded random source produces.
shuffle(deck) ==
    {FisherYates(deck, Len(deck) - 1, num) : num \in 0..(RandomDen - 1)}

\* The Fisher-Yates loop with Math.random() = nums[..] / RandomDen, the
\* values of nums taken in rotation, one per iteration.
RECURSIVE FisherYatesBy(_, _, _)
FisherYatesBy(deck, i, nums) ==
    IF i < 1 THEN deck
    ELSE LET num == nums[((Len(deck) - 1 - i) % Len(nums)) + 1]
             j == (num * (i + 1)) \div RandomDen
         IN  FisherYatesBy(Swap(deck, i + 1, j + 1), i - 1, nums)

\* shuffle: the permutations of deck the streams of RandomPeriod values
\* produce.
shuffleBy(deck) ==
    {FisherYatesBy(deck, Len(deck) - 1, nums)
        : nums \in [1..RandomPeriod -> 0..(RandomDen - 1)]}

getNextPlayerIndex(current, direction, numPlayers) ==
    IF numPlayers = 0 THEN 0
    ELSE (current + direction + numPlayers) % numPlayers

\* isValidMove without the value match.
isValidMoveColourOnly(card, topCard, currentColor, isDrawingPhase) ==
    IF card.color = NoColor THEN TRUE
    ELSE IF isDrawingPhase /\ IsDrawCardValue(topCard.value)
         THEN IsDrawCardValue(card.value)
    ELSE card.color = currentColor

\* isValidMove with the draw-stack rule tested before the wild rule.
isValidMoveStackFirst(card, topCard, currentColor, isDrawingPhase) ==
    IF isDrawingPhase /\ IsDrawCardValue(topCard.value)
    THEN IsDrawCardValue(card.value)
    ELSE IF card.color = NoColor THEN TRUE
    ELSE IF card.color = currentColor THEN TRUE
    ELSE card.value = topCard.value

isValidMove(card, topCard, currentColor, isDrawingPhase) ==
    IF card.color = NoColor THEN TRUE
    ELSE IF isDrawingPhase /\ IsDrawCardValue(topCard.value)
         THEN IsDrawCardValue(card.value)
    ELSE IF card.color = currentColor THEN TRUE
    ELSE IF card.value = topCard.value THEN TRUE
    ELSE FALSE

\* Array.pop results: the last element and the array without it.
Top(s) == s[Len(s)]
Pop(s) == SubSeq(s, 1, Len(s) - 1)

\* Array.findIndex on players by id, -1 if absent.
findIndex(players, playerId) ==
    IF \E i \in 1..Len(players) : players[i].id = playerId
    THEN (CHOOSE i \in 1..Len(players) : players[i].id = playerId) - 1
    ELSE -1

\* Array.findIndex on a hand by card id, -1 if absent.
findCardIndex(hand, cardId) ==
    IF \E i \in 1..Len(hand) : hand[i].id = cardId
    THEN (CHOOSE i \in 1..Len(hand) : hand[i].id = cardId) - 1
    ELSE -1

\* Array.splice(index, 1) at 0-based index.
Splice(s, index) == SubSeq(s, 1, index) \o SubSeq(s, index + 2, Len(s))

\* The colour reset ensureDeck applies to every card of the new deck.
ClearWild(c) == IF IsWildValue(c.value) THEN [c EXCEPT !.color = NoColor] ELSE c

\* ensureDeck that leaves the recycled cards in the discard pile as well.
ensureDeckKeepsPile(g) ==
    IF Len(g.deck) = 0 /\ Len(g.discardPile) > 1
    THEN {[g EXCEPT !.deck = [k \in 1..Len(d) |-> ClearWild(d[k])]]
            : d \in shuffle(Pop(g.discardPile))}
    ELSE {g}
\* ensureDeck that leaves the bottom card of the pile and recycles the rest.
ensureDeckKeepsBottom(g) ==
    IF Len(g.deck) = 0 /\ Len(g.discardPile) > 1
    THEN {[g EXCEPT !.deck = [k \in 1..Len(d) |-> ClearWild(d[k])],
                    !.discardPile = <<Head(g.discardPile)>>]
            : d \in shuffle(Tail(g.discardPile))}
    ELSE {g}
\* ensureDeck that recycles the whole pile, top card included.
ensureDeckWholePile(g) ==
    IF Len(g.deck) = 0 /\ Len(g.discardPile) > 1
    THEN {[g EXCEPT !.deck = [k \in 1..Len(d) |-> ClearWild(d[k])],
                    !.discardPile = <<>>]
            : d \in shuffle(g.discardPile)}
    ELSE {g}

\* ensureDeck: the states it can leave, one per shuffle outcome.
ensureDeck(g) ==
    IF Len(g.deck) = 0 /\ Len(g.discardPile) > 1
    THEN {[g EXCEPT !.deck = [k \in 1..Len(d) |-> ClearWild(d[k])],
                    !.discardPile = <<Top(g.discardPile)>>]
            : d \in shuffle(Pop(g.discardPile))}
    ELSE {g}
\* drawOne that hands out the top card of the deck without taking it off.
drawOneKeepsDeck(g, playerIndex) ==
    {IF Len(e.deck) = 0 THEN e
     ELSE [e EXCEPT !.players[playerIndex + 1].hand = Append(@, Top(e.deck))]
       : e \in ensureDeck(g)}

\* One iteration of the draw loops: ensureDeck, pop, push onto the hand of
\* players[playerIndex] if a card came out.
drawOne(g, playerIndex) ==
    {IF Len(e.deck) = 0 THEN e
     ELSE [e EXCEPT !.deck = Pop(e.deck),
                    !.players[playerIndex + 1].hand = Append(@, Top(e.deck))]
       : e \in ensureDeck(g)}

RECURSIVE drawLoop(_, _, _)
drawLoop(g, playerIndex, n) ==
    IF n = 0 THEN {g}
    ELSE UNION {drawLoop(e, playerIndex, n - 1) : e \in drawOne(g, playerIndex)}

\* ensureDeck(game) followed by the loop of n draws into players[playerIndex].
drawCards(g, playerIndex, n) ==
    UNION {drawLoop(e, playerIndex, n) : e \in ensureDeck(g)}

-----------------------------------------------------------------------------
(* setup                                                                   *)

\* The dealing loop: each player in turn pops HandSize cards.
RECURSIVE deal(_, _, _)
deal(deck, players, k) ==
    IF k > Len(players) THEN [deck |-> deck, players |-> players]
    ELSE LET n == Min(HandSize, Len(deck))
             hand == [i \in 1..n |-> deck[Len(deck) - i + 1]]
         IN  deal(SubSeq(deck, 1, Len(deck) - n),
                  [players EXCEPT ![k].hand = hand], k + 1)

\* startCardLoop that takes whatever card is on top.
startCardLoopAnyCard(deck, redraws) ==
    {[startCard |-> Top(d), deck |-> Pop(d)]
        : d \in IF Len(deck) = 0 THEN shuffle(createDeck) ELSE {deck}}

\* The do-while loop that flips the start card: a wildDrawFour goes back
\* under the deck, which is shuffled again.
RECURSIVE startCardLoop(_, _)
startCardLoop(deck, redraws) ==
    UNION {LET startCard == Top(d)
           IN  IF startCard.value = "wildDrawFour"
               THEN IF redraws = 0 THEN {}
                    ELSE UNION {startCardLoop(s, redraws - 1)
                                  : s \in shuffle(<<startCard>> \o Pop(d))}
               ELSE {[startCard |-> startCard, deck |-> Pop(d)]}
             : d \in IF Len(deck) = 0 THEN shuffle(createDeck) ELSE {deck}}

\* setupFrom in which a reverse start card flips the direction for any
\* number of players.
setupFromReverseFlips(allPlayerIds, shuffled) ==
    LET players0 == [i \in 1..Len(allPlayerIds) |->
                        [id |-> allPlayerIds[i], hand |-> <<>>,
                         hasCalledUno |-> FALSE]]
        dealt == deal(shuffled, players0, 1)
    IN  {LET startCard == sc.startCard
             n == Len(dealt.players)
             initialCurrentColor ==
                 IF startCard.color # NoColor THEN startCard.color ELSE "red"
             isSkip == n > 0 /\ startCard.value = "skip"
             isRev == n > 0 /\ startCard.value = "reverse"
             isD2 == n > 0 /\ startCard.value = "drawTwo"
             k == Min(2, Len(sc.deck))
             drawn == [i \in 1..k |-> sc.deck[Len(sc.deck) - i + 1]]
         IN  [deck |-> IF isD2 THEN SubSeq(sc.deck, 1, Len(sc.deck) - k)
                       ELSE sc.deck,
              discardPile |-> <<startCard>>,
              players |-> IF isD2
                          THEN [dealt.players EXCEPT ![1].hand = @ \o drawn]
                          ELSE dealt.players,
              currentPlayerIndex |->
                  IF isSkip \/ isD2
                  THEN getNextPlayerIndex(0, 1, n) ELSE 0,
              direction |-> IF isRev THEN -1 ELSE 1,
              currentColor |-> initialCurrentColor,
              winner |-> NoPlayer,
              drawnCard |-> NoCard,
              lastAction |-> <<<<"Game Started", "", 0, "">>>>,
              drawStack |-> IF isD2 THEN 2 ELSE 0,
              playerCache |-> [p \in {} |-> <<>>]]
           : sc \in startCardLoop(dealt.deck, MaxRedraws)}

setupFrom(allPlayerIds, shuffled) ==
    LET players0 == [i \in 1..Len(allPlayerIds) |->
                        [id |-> allPlayerIds[i], hand |-> <<>>,
                         hasCalledUno |-> FALSE]]
        dealt == deal(shuffled, players0, 1)
    IN  {LET startCard == sc.startCard
             n == Len(dealt.players)
             initialCurrentColor ==
                 IF startCard.color # NoColor THEN startCard.color ELSE "red"
             isSkip == n > 0 /\ startCard.value = "skip"
             isRev == n > 0 /\ startCard.value = "reverse"
             isD2 == n > 0 /\ startCard.value = "drawTwo"
             k == Min(2, Len(sc.deck))
             drawn == [i \in 1..k |-> sc.deck[Len(sc.deck) - i + 1]]
         IN  [deck |-> IF isD2 THEN SubSeq(sc.deck, 1, Len(sc.deck) - k)
                       ELSE sc.deck,
              discardPile |-> <<startCard>>,
              players |-> IF isD2
                          THEN [dealt.players EXCEPT ![1].hand = @ \o drawn]
                          ELSE dealt.players,
              currentPlayerIndex |->
                  IF isSkip \/ (isRev /\ n = 2) \/ isD2
                  THEN getNextPlayerIndex(0, 1, n) ELSE 0,
              direction |-> IF isRev /\ n # 2 THEN -1 ELSE 1,
              currentColor |-> initialCurrentColor,
              winner |-> NoPlayer,
              drawnCard |-> NoCard,
              lastAction |-> <<<<"Game Started", "", 0, "">>>>,
              drawStack |-> IF isD2 THEN 2 ELSE 0,
              playerCache |-> [p \in {} |-> <<>>]]
           : sc \in startCardLoop(dealt.deck, MaxRedraws)}

setup(allPlayerIds) ==
    UNION {setupFrom(allPlayerIds, d) : d \in shuffle(createDeck)}

-----------------------------------------------------------------------------
(* actions: each handler maps a state and its inputs to the set of         *)
(* outcomes the shuffles allow.  An outcome carries the state the handler  *)
(* left, whether it returned (ok) or threw Rune.invalidAction() and at    *)
(* which line, and the number of Rune.gameOver calls it made.             *)

Accepted(g) == [game |-> g, ok |-> TRUE, gameOver |-> 0, line |-> 0]

\* A throw of Rune.invalidAction() at the source line, in state g.
Rejected(g, line) == [game |-> g, ok |-> FALSE, gameOver |-> 0, line |-> line]

Entry(tag, id, n, colour) == <<tag, id, n, colour>>

hasStackable(hand) == \E i \in 1..Len(hand) : IsDrawCardValue(hand[i].value)

\* catchPenalty that does not look at hasCalledUno.
catchPenaltyIgnoringFlag(g, playerIndex) ==
    LET player == g.players[playerIndex + 1]
        drawn == IF Len(player.hand) = 1
                 THEN drawCards([g EXCEPT !.lastAction =
                                    Append(@, Entry("Forgot UNO", player.id, 2, ""))],
                                playerIndex, 2)
                 ELSE {g}
    IN  {IF Len(d.players[playerIndex + 1].hand) > 1
         THEN [d EXCEPT !.players[playerIndex + 1].hasCalledUno = FALSE]
         ELSE d : d \in drawn}

\* playCard lines 294-304: the two cards a player with one card left draws
\* when hasCalledUno is not set, then the reset of hasCalledUno.
catchPenalty(g, playerIndex) ==
    LET player == g.players[playerIndex + 1]
        drawn == IF Len(player.hand) = 1 /\ ~player.hasCalledUno
                 THEN drawCards([g EXCEPT !.lastAction =
                                    Append(@, Entry("Forgot UNO", player.id, 2, ""))],
                                playerIndex, 2)
                 ELSE {g}
    IN  {IF Len(d.players[playerIndex + 1].hand) > 1
         THEN [d EXCEPT !.players[playerIndex + 1].hasCalledUno = FALSE]
         ELSE d : d \in drawn}

\* cardEffects in which a wildDrawFour adds 2 to the stack.
cardEffectsFlat(g, card) ==
    LET n == Len(g.players)
        nextPlayerSkip == (card.value = "reverse" /\ n = 2) \/ card.value = "skip"
        direction == IF card.value = "reverse" /\ n # 2
                     THEN g.direction * (-1) ELSE g.direction
        drawStack == IF IsDrawCardValue(card.value) THEN g.drawStack + 2
                     ELSE g.drawStack
        once == getNextPlayerIndex(g.currentPlayerIndex, direction, n)
    IN  [g EXCEPT !.direction = direction,
                  !.drawStack = drawStack,
                  !.currentPlayerIndex =
                      IF nextPlayerSkip
                      THEN getNextPlayerIndex(once, direction, n) ELSE once,
                  !.lastAction =
                      IF nextPlayerSkip
                      THEN Append(@, Entry("Skipped next player", "", 0, ""))
                      ELSE @]

\* playCard lines 306-334: reverse / skip / draw-stack effect of the card
\* and the advance of the turn.
cardEffects(g, card) ==
    LET n == Len(g.players)
        nextPlayerSkip == (card.value = "reverse" /\ n = 2) \/ card.value = "skip"
        direction == IF card.value = "reverse" /\ n # 2
                     THEN g.direction * (-1) ELSE g.direction
        drawStack == IF card.value = "drawTwo" THEN g.drawStack + 2
                     ELSE IF card.value = "wildDrawFour" THEN g.drawStack + 4
                     ELSE g.drawStack
        once == getNextPlayerIndex(g.currentPlayerIndex, direction, n)
    IN  [g EXCEPT !.direction = direction,
                  !.drawStack = drawStack,
                  !.currentPlayerIndex =
                      IF nextPlayerSkip
                      THEN getNextPlayerIndex(once, direction, n) ELSE once,
                  !.lastAction =
                      IF nextPlayerSkip
                      THEN Append(@, Entry("Skipped next player", "", 0, ""))
                      ELSE @]

\* forcedDraw that never deals the stack: it is left pending whoever is next.
forcedDrawNever(g) == {g}

\* forcedDraw that keeps on the stack the cards the deck could not supply.
forcedDrawOwing(g) ==
    IF g.drawStack > 0
    THEN LET currentPlayer == g.players[g.currentPlayerIndex + 1]
         IN  IF ~hasStackable(currentPlayer.hand)
             THEN {[d EXCEPT !.drawStack =
                                 g.drawStack
                                 - (Len(d.players[g.currentPlayerIndex + 1].hand)
                                    - Len(currentPlayer.hand)),
                             !.currentPlayerIndex =
                                 getNextPlayerIndex(d.currentPlayerIndex,
                                                    d.direction, Len(d.players))]
                     : d \in drawCards(
                         [g EXCEPT !.lastAction =
                             Append(@, Entry("draws", currentPlayer.id, g.drawStack, ""))],
                         g.currentPlayerIndex, g.drawStack)}
             ELSE {g}
    ELSE {g}

\* forcedDraw that leaves the turn with the player who drew.
forcedDrawKeepsTurn(g) ==
    IF g.drawStack > 0
    THEN LET currentPlayer == g.players[g.currentPlayerIndex + 1]
         IN  IF ~hasStackable(currentPlayer.hand)
             THEN {[d EXCEPT !.drawStack = 0]
                     : d \in drawCards(
                         [g EXCEPT !.lastAction =
                             Append(@, Entry("draws", currentPlayer.id, g.drawStack, ""))],
                         g.currentPlayerIndex, g.drawStack)}
             ELSE {g}
    ELSE {g}

\* playCard lines 336-357: the new current player draws the whole stack at
\* once when their hand holds no drawTwo and no wildDrawFour.
forcedDraw(g) ==
    IF g.drawStack > 0
    THEN LET currentPlayer == g.players[g.currentPlayerIndex + 1]
         IN  IF ~hasStackable(currentPlayer.hand)
             THEN {[d EXCEPT !.drawStack = 0,
                             !.currentPlayerIndex =
                                 getNextPlayerIndex(d.currentPlayerIndex,
                                                    d.direction, Len(d.players))]
                     : d \in drawCards(
                         [g EXCEPT !.lastAction =
                             Append(@, Entry("draws", currentPlayer.id, g.drawStack, ""))],
                         g.currentPlayerIndex, g.drawStack)}
             ELSE {g}
    ELSE {g}

\* finishPlay that records the winner without returning.
finishPlayNoReturn(played, playerIndex, card) ==
    LET won == Len(played.players[playerIndex + 1].hand) = 0
        marked == IF won
                  THEN [played EXCEPT !.winner = played.players[playerIndex + 1].id]
                  ELSE played
    IN  {[game |-> [f EXCEPT !.drawnCard = NoCard], ok |-> TRUE,
          gameOver |-> IF won THEN 1 ELSE 0, line |-> 0]
            : f \in UNION {forcedDraw(cardEffects(c, card))
                             : c \in catchPenalty(marked, playerIndex)}}
\* finishPlay that leaves the held drawn card in its slot after the play.
finishPlayKeepsHeld(played, playerIndex, card) ==
    IF Len(played.players[playerIndex + 1].hand) = 0
    THEN {[game |-> [played EXCEPT !.winner = played.players[playerIndex + 1].id],
           ok |-> TRUE, gameOver |-> 1, line |-> 0]}
    ELSE {Accepted(f)
            : f \in UNION {forcedDraw(cardEffects(c, card))
                             : c \in catchPenalty(played, playerIndex)}}

\* playCard lines 288-359: the win check, then penalty, card effects,
\* forced draw and the final reset of drawnCard.
finishPlay(played, playerIndex, card) ==
    IF Len(played.players[playerIndex + 1].hand) = 0
    THEN {[game |-> [played EXCEPT !.winner = played.players[playerIndex + 1].id],
           ok |-> TRUE, gameOver |-> 1, line |-> 0]}
    ELSE {Accepted([f EXCEPT !.drawnCard = NoCard])
            : f \in UNION {forcedDraw(cardEffects(c, card))
                             : c \in catchPenalty(played, playerIndex)}}

playCard(g, playerId, cardId, selectedColor) ==
    LET playerIndex == findIndex(g.players, playerId)
    IN  IF g.currentPlayerIndex # playerIndex THEN {Rejected(g, 247)}
        ELSE
        LET player == g.players[playerIndex + 1]
            cardIndex == findCardIndex(player.hand, cardId)
            playingDrawn == cardIndex = -1 /\ g.drawnCard # NoCard
                            /\ g.drawnCard.id = cardId
            card == IF cardIndex # -1 THEN player.hand[cardIndex + 1]
                    ELSE IF playingDrawn THEN g.drawnCard ELSE NoCard
        IN  IF card = NoCard THEN {Rejected(g, 258)}
            ELSE
            LET topCard == Top(g.discardPile)
                canPlayDrawCard == g.drawStack > 0 /\ IsDrawCardValue(card.value)
            IN  IF ~isValidMove(card, topCard, g.currentColor, g.drawStack > 0)
                   /\ ~canPlayDrawCard
                THEN {Rejected(g, 268)}
                ELSE IF IsWildValue(card.value) /\ selectedColor = NoColor
                THEN {Rejected(g, 275)}
                ELSE
                LET currentColor == IF card.color = NoColor
                                    THEN selectedColor ELSE card.color
                    played ==
                        [g EXCEPT !.drawnCard = IF playingDrawn THEN NoCard ELSE @,
                                  !.players[playerIndex + 1].hand =
                                      IF playingDrawn THEN @ ELSE Splice(@, cardIndex),
                                  !.discardPile = Append(@, card),
                                  !.currentColor = currentColor,
                                  !.lastAction =
                                      <<Entry("played", player.id, card.id,
                                              IF IsWildValue(card.value)
                                              THEN currentColor ELSE card.color)>>]
                IN  finishPlay(played, playerIndex, card)

\* drawCard whose payment of the stack leaves hasCalledUno as it was.
drawCardKeepsFlag(g, playerId) ==
    LET playerIndex == findIndex(g.players, playerId)
    IN  IF g.currentPlayerIndex # playerIndex THEN {Rejected(g, 366)}
        ELSE
        LET player == g.players[playerIndex + 1]
        IN  IF g.drawStack > 0
            THEN {Accepted([d EXCEPT !.drawStack = 0,
                                     !.currentPlayerIndex =
                                         getNextPlayerIndex(d.currentPlayerIndex,
                                                            d.direction, Len(d.players))])
                    : d \in drawCards(
                        [g EXCEPT !.lastAction =
                            Append(@, Entry("draws", player.id, g.drawStack, ""))],
                        playerIndex, g.drawStack)}
            ELSE IF g.drawnCard # NoCard THEN {Rejected(g, 385)}
            ELSE {IF Len(e.deck) = 0 THEN Rejected(e, 389)
                  ELSE Accepted([e EXCEPT !.deck = Pop(e.deck),
                                          !.drawnCard = Top(e.deck),
                                          !.lastAction = <<Entry("drew a card", player.id, 0, "")>>,
                                          !.players[playerIndex + 1].hasCalledUno = FALSE])
                    : e \in ensureDeck(g)}
\* drawCard that draws again while a drawn card is held.
drawCardAgain(g, playerId) ==
    LET playerIndex == findIndex(g.players, playerId)
    IN  IF g.currentPlayerIndex # playerIndex THEN {Rejected(g, 366)}
        ELSE
        LET player == g.players[playerIndex + 1]
        IN  IF g.drawStack > 0
            THEN {Accepted([d EXCEPT !.drawStack = 0,
                                     !.players[playerIndex + 1].hasCalledUno = FALSE,
                                     !.currentPlayerIndex =
                                         getNextPlayerIndex(d.currentPlayerIndex,
                                                            d.direction, Len(d.players))])
                    : d \in drawCards(
                        [g EXCEPT !.lastAction =
                            Append(@, Entry("draws", player.id, g.drawStack, ""))],
                        playerIndex, g.drawStack)}
            ELSE {IF Len(e.deck) = 0 THEN Rejected(e, 389)
                  ELSE Accepted([e EXCEPT !.deck = Pop(e.deck),
                                          !.drawnCard = Top(e.deck),
                                          !.lastAction = <<Entry("drew a card", player.id, 0, "")>>,
                                          !.players[playerIndex + 1].hasCalledUno = FALSE])
                    : e \in ensureDeck(g)}

drawCard(g, playerId) ==
    LET playerIndex == findIndex(g.players, playerId)
    IN  IF g.currentPlayerIndex # playerIndex THEN {Rejected(g, 366)}
        ELSE
        LET player == g.players[playerIndex + 1]
        IN  IF g.drawStack > 0
            THEN {Accepted([d EXCEPT !.drawStack = 0,
                                     !.players[playerIndex + 1].hasCalledUno = FALSE,
                                     !.currentPlayerIndex =
                                         getNextPlayerIndex(d.currentPlayerIndex,
                                                            d.direction, Len(d.players))])
                    : d \in drawCards(
                        [g EXCEPT !.lastAction =
                            Append(@, Entry("draws", player.id, g.drawStack, ""))],
                        playerIndex, g.drawStack)}
            ELSE IF g.drawnCard # NoCard THEN {Rejected(g, 385)}
            ELSE {IF Len(e.deck) = 0 THEN Rejected(e, 389)
                  ELSE Accepted([e EXCEPT !.deck = Pop(e.deck),
                                          !.drawnCard = Top(e.deck),
                                          !.lastAction = <<Entry("drew a card", player.id, 0, "")>>,
                                          !.players[playerIndex + 1].hasCalledUno = FALSE])
                    : e \in ensureDeck(g)}

\* passTurn that only requires the player to be seated.
passTurnAnySeat(g, playerId) ==
    LET playerIndex == findIndex(g.players, playerId)
    IN  IF playerIndex = -1 THEN {Rejected(g, 400)}
        ELSE IF g.drawnCard = NoCard THEN {Rejected(g, 401)}
        ELSE IF g.drawStack > 0 THEN {Rejected(g, 402)}
        ELSE {Accepted([g EXCEPT !.players[playerIndex + 1].hand = Append(@, g.drawnCard),
                                 !.players[playerIndex + 1].hasCalledUno = FALSE,
                                 !.drawnCard = NoCard,
                                 !.lastAction = <<Entry("passed their turn", playerId, 0, "")>>,
                                 !.currentPlayerIndex =
                                     getNextPlayerIndex(g.currentPlayerIndex,
                                                        g.direction, Len(g.players))])}
\* passTurn that clears the held slot without returning the card to the hand.
passTurnKeepsCard(g, playerId) ==
    LET playerIndex == findIndex(g.players, playerId)
    IN  IF g.currentPlayerIndex # playerIndex THEN {Rejected(g, 400)}
        ELSE IF g.drawnCard = NoCard THEN {Rejected(g, 401)}
        ELSE IF g.drawStack > 0 THEN {Rejected(g, 402)}
        ELSE {Accepted([g EXCEPT !.players[playerIndex + 1].hasCalledUno = FALSE,
                                 !.drawnCard = NoCard,
                                 !.lastAction = <<Entry("passed their turn", playerId, 0, "")>>,
                                 !.currentPlayerIndex =
                                     getNextPlayerIndex(g.currentPlayerIndex,
                                                        g.direction, Len(g.players))])}

passTurn(g, playerId) ==
    LET playerIndex == findIndex(g.players, playerId)
    IN  IF g.currentPlayerIndex # playerIndex THEN {Rejected(g, 400)}
        ELSE IF g.drawnCard = NoCard THEN {Rejected(g, 401)}
        ELSE IF g.drawStack > 0 THEN {Rejected(g, 402)}
        ELSE {Accepted([g EXCEPT !.players[playerIndex + 1].hand = Append(@, g.drawnCard),
                                 !.players[playerIndex + 1].hasCalledUno = FALSE,
                                 !.drawnCard = NoCard,
                                 !.lastAction = <<Entry("passed their turn", playerId, 0, "")>>,
                                 !.currentPlayerIndex =
                                     getNextPlayerIndex(g.currentPlayerIndex,
                                                        g.direction, Len(g.players))])}

\* callUno that sets the flag before it tests the size of the hand.
callUnoFlagFirst(g, playerId) ==
    LET playerIndex == findIndex(g.players, playerId)
    IN  IF playerIndex = -1 THEN {Rejected(g, 418)}
        ELSE IF g.currentPlayerIndex = playerIndex
        THEN LET set == [g EXCEPT !.players[playerIndex + 1].hasCalledUno = TRUE,
                                  !.lastAction = <<Entry("called UNO!", playerId, 0, "")>>]
             IN  IF Len(g.players[playerIndex + 1].hand) > 2 THEN {Rejected(set, 424)}
                 ELSE {Accepted(set)}
        ELSE {Rejected(g, 429)}
\* callUno without the test of the size of the hand.
callUnoAnyHand(g, playerId) ==
    LET playerIndex == findIndex(g.players, playerId)
    IN  IF playerIndex = -1 THEN {Rejected(g, 418)}
        ELSE IF g.currentPlayerIndex = playerIndex
        THEN {Accepted([g EXCEPT !.players[playerIndex + 1].hasCalledUno = TRUE,
                                      !.lastAction = <<Entry("called UNO!", playerId, 0, "")>>])}
        ELSE {Rejected(g, 429)}

callUno(g, playerId) ==
    LET playerIndex == findIndex(g.players, playerId)
    IN  IF playerIndex = -1 THEN {Rejected(g, 418)}
        ELSE IF g.currentPlayerIndex = playerIndex
        THEN IF Len(g.players[playerIndex + 1].hand) > 2 THEN {Rejected(g, 424)}
             ELSE {Accepted([g EXCEPT !.players[playerIndex + 1].hasCalledUno = TRUE,
                                      !.lastAction = <<Entry("called UNO!", playerId, 0, "")>>])}
        ELSE {Rejected(g, 429)}

-----------------------------------------------------------------------------
(* events                                                                  *)

\* playerJoined that restores a cached hand and keeps the cache entry.
playerJoinedKeepsCache(g, playerId) ==
    IF \E i \in 1..Len(g.players) : g.players[i].id = playerId THEN {g}
    ELSE IF playerId \in DOMAIN g.playerCache
    THEN {[g EXCEPT !.players = Append(@, [id |-> playerId,
                                           hand |-> g.playerCache[playerId],
                                           hasCalledUno |-> FALSE]),
                    !.lastAction = <<Entry("joined", playerId, 0, "")>>]}
    ELSE LET seated == [g EXCEPT !.players = Append(@, [id |-> playerId,
                                                        hand |-> <<>>,
                                                        hasCalledUno |-> FALSE])]
         IN  {[d EXCEPT !.lastAction = <<Entry("joined", playerId, 0, "")>>]
                : d \in drawCards(seated, Len(g.players), HandSize)}
\* playerJoined that seats the newcomer at the head of the turn order.
playerJoinedFirstSeat(g, playerId) ==
    IF \E i \in 1..Len(g.players) : g.players[i].id = playerId THEN {g}
    ELSE IF playerId \in DOMAIN g.playerCache
    THEN {[g EXCEPT !.players = Append(@, [id |-> playerId,
                                           hand |-> g.playerCache[playerId],
                                           hasCalledUno |-> FALSE]),
                    !.playerCache = [p \in (DOMAIN g.playerCache) \ {playerId}
                                        |-> g.playerCache[p]],
                    !.lastAction = <<Entry("joined", playerId, 0, "")>>]}
    ELSE LET seated == [g EXCEPT !.players = <<[id |-> playerId,
                                                  hand |-> <<>>,
                                                  hasCalledUno |-> FALSE]>> \o @]
         IN  {[d EXCEPT !.lastAction = <<Entry("joined", playerId, 0, "")>>]
                : d \in drawCards(seated, 0, HandSize)}

playerJoined(g, playerId) ==
    IF \E i \in 1..Len(g.players) : g.players[i].id = playerId THEN {g}
    ELSE IF playerId \in DOMAIN g.playerCache
    THEN {[g EXCEPT !.players = Append(@, [id |-> playerId,
                                           hand |-> g.playerCache[playerId],
                                           hasCalledUno |-> FALSE]),
                    !.playerCache = [p \in (DOMAIN g.playerCache) \ {playerId}
                                        |-> g.playerCache[p]],
                    !.lastAction = <<Entry("joined", playerId, 0, "")>>]}
    ELSE LET seated == [g EXCEPT !.players = Append(@, [id |-> playerId,
                                                        hand |-> <<>>,
                                                        hasCalledUno |-> FALSE])]
         IN  {[d EXCEPT !.lastAction = <<Entry("joined", playerId, 0, "")>>]
                : d \in drawCards(seated, Len(g.players), HandSize)}

\* playerLeft without the reduction of the index modulo the roster size.
playerLeftNoWrap(g, playerId) ==
    LET idx == findIndex(g.players, playerId)
    IN  IF idx = -1 THEN g
        ELSE
        LET player == g.players[idx + 1]
            wasCurrentPlayer == idx = g.currentPlayerIndex
            players == Splice(g.players, idx)
            decremented == IF idx < g.currentPlayerIndex
                           THEN g.currentPlayerIndex - 1
                           ELSE g.currentPlayerIndex
        IN  [g EXCEPT !.playerCache =
                          [p \in (DOMAIN g.playerCache) \cup {playerId} |->
                              IF p = playerId THEN player.hand ELSE g.playerCache[p]],
                      !.players = players,
                      !.currentPlayerIndex =
                          IF Len(players) = 0 THEN 0
                          ELSE decremented,
                      !.drawnCard = IF wasCurrentPlayer THEN NoCard ELSE @,
                      !.lastAction = <<Entry("left", playerId, 0, "")>>]
\* playerLeft that does not shift the turn index when an earlier seat empties.
playerLeftNoShift(g, playerId) ==
    LET idx == findIndex(g.players, playerId)
    IN  IF idx = -1 THEN g
        ELSE
        LET player == g.players[idx + 1]
            wasCurrentPlayer == idx = g.currentPlayerIndex
            players == Splice(g.players, idx)
            decremented == g.currentPlayerIndex
        IN  [g EXCEPT !.playerCache =
                          [p \in (DOMAIN g.playerCache) \cup {playerId} |->
                              IF p = playerId THEN player.hand ELSE g.playerCache[p]],
                      !.players = players,
                      !.currentPlayerIndex =
                          IF Len(players) = 0 THEN 0
                          ELSE decremented % Len(players),
                      !.drawnCard = IF wasCurrentPlayer THEN NoCard ELSE @,
                      !.lastAction = <<Entry("left", playerId, 0, "")>>]
\* playerLeft that leaves the held drawn card in its slot.
playerLeftKeepsHeld(g, playerId) ==
    LET idx == findIndex(g.players, playerId)
    IN  IF idx = -1 THEN g
        ELSE
        LET player == g.players[idx + 1]
            wasCurrentPlayer == idx = g.currentPlayerIndex
            players == Splice(g.players, idx)
            decremented == IF idx < g.currentPlayerIndex
                           THEN g.currentPlayerIndex - 1
                           ELSE g.currentPlayerIndex
        IN  [g EXCEPT !.playerCache =
                          [p \in (DOMAIN g.playerCache) \cup {playerId} |->
                              IF p = playerId THEN player.hand ELSE g.playerCache[p]],
                      !.players = players,
                      !.currentPlayerIndex =
                          IF Len(players) = 0 THEN 0
                          ELSE decremented % Len(players),
                      !.lastAction = <<Entry("left", playerId, 0, "")>>]

playerLeft(g, playerId) ==
    LET idx == findIndex(g.players, playerId)
    IN  IF idx = -1 THEN g
        ELSE
        LET player == g.players[idx + 1]
            wasCurrentPlayer == idx = g.currentPlayerIndex
            players == Splice(g.players, idx)
            decremented == IF idx < g.currentPlayerIndex
                           THEN g.currentPlayerIndex - 1
                           ELSE g.currentPlayerIndex
        IN  [g EXCEPT !.playerCache =
                          [p \in (DOMAIN g.playerCache) \cup {playerId} |->
                              IF p = playerId THEN player.hand ELSE g.playerCache[p]],
                      !.players = players,
                      !.currentPlayerIndex =
                          IF Len(players) = 0 THEN 0
                          ELSE decremented % Len(players),
                      !.drawnCard = IF wasCurrentPlayer THEN NoCard ELSE @,
                      !.lastAction = <<Entry("left", playerId, 0, "")>>]

-----------------------------------------------------------------------------
(* The state machine.  prev and last record the state before, and the      *)
(* inputs of, the latest accepted action or event; attempt records a       *)
(* thrown Rune.invalidAction() and the state the handler had reached,      *)
(* until the platform discards the rejected action.                        *)

Call(op, playerId, cardId, selectedColor) ==
    [op |-> op, playerId |-> playerId, cardId |-> cardId,
     selectedColor |-> selectedColor]

NoAttempt == [op |-> "none", playerId |-> NoPlayer, line |-> 0,
              left |-> [deck |-> <<>>]]

\* The rejected action: who called what, the line that threw, and the
\* state the handler had reached.
Thrown(call, r) ==
    [op |-> call.op, playerId |-> call.playerId, line |-> r.line,
     left |-> r.game]

Start(rosters, maxSteps) ==
    /\ \E allPlayerIds \in rosters : game \in setup(allPlayerIds)
    /\ gameOverReports = 0
    /\ steps = 0
    /\ limit = maxSteps
    /\ prev = game
    /\ last = Call("setup", NoPlayer, -1, NoColor)
    /\ attempt = NoAttempt

Init == Start(Rosters, MaxSteps)

\* Setup for one player; the others may join later.
SoloInit == Start({<<"p1">>}, MaxSoloSteps)

\* Setup on the decks the streams of random values produce.
SetupInit ==
    /\ \E allPlayerIds \in Rosters, shuffled \in shuffleBy(createDeck) :
          game \in setupFrom(allPlayerIds, shuffled)
    /\ gameOverReports = 0
    /\ steps = 0
    /\ limit = MaxSetupSteps
    /\ prev = game
    /\ last = Call("setup", NoPlayer, -1, NoColor)
    /\ attempt = NoAttempt

\* The platform's handling of one outcome of an action handler.  Attempts
\* are explored while fewer than limit steps have been accepted.
Apply(call, r) ==
    /\ IF r.ok
       THEN /\ game' = r.game
            /\ gameOverReports' = gameOverReports + r.gameOver
            /\ steps' = steps + 1
            /\ prev' = game
            /\ last' = call
            /\ UNCHANGED <<limit, attempt>>
       ELSE /\ attempt' = Thrown(call, r)
            /\ UNCHANGED <<game, gameOverReports, steps, limit, prev, last>>

\* The platform's handling of one outcome of a roster event.
Notify(call, g) ==
    /\ game' = g
    /\ steps' = steps + 1
    /\ prev' = game
    /\ last' = call
    /\ UNCHANGED <<gameOverReports, limit, attempt>>

PlayCard(playerId, cardId, selectedColor) ==
    /\ attempt.op = "none"
    /\ steps < limit
    /\ \E r \in playCard(game, playerId, cardId, selectedColor) :
          Apply(Call("playCard", playerId, cardId, selectedColor), r)

DrawCard(playerId) ==
    /\ attempt.op = "none"
    /\ steps < limit
    /\ \E r \in drawCard(game, playerId) :
          Apply(Call("drawCard", playerId, -1, NoColor), r)

PassTurn(playerId) ==
    /\ attempt.op = "none"
    /\ steps < limit
    /\ \E r \in passTurn(game, playerId) :
          Apply(Call("passTurn", playerId, -1, NoColor), r)

CallUno(playerId) ==
    /\ attempt.op = "none"
    /\ steps < limit
    /\ \E r \in callUno(game, playerId) :
          Apply(Call("callUno", playerId, -1, NoColor), r)

PlayerJoined(playerId) ==
    /\ attempt.op = "none"
    /\ steps < limit
    /\ \E g \in playerJoined(game, playerId) :
          Notify(Call("playerJoined", playerId, -1, NoColor), g)

PlayerLeft(playerId) ==
    /\ attempt.op = "none"
    /\ steps < limit
    /\ Notify(Call("playerLeft", playerId, -1, NoColor), playerLeft(game, playerId))

\* The platform discards a rejected action: the game it keeps is the one
\* from before the action.
Discard ==
    /\ attempt.op # "none"
    /\ attempt' = NoAttempt
    /\ UNCHANGED <<game, gameOverReports, steps, limit, prev, last>>

\* The card identifiers a client submits: those of the cards it shows, its
\* player's hand, the held drawn card and the top of the discard pile.
shownCardIds(g, playerId) ==
    LET playerIndex == findIndex(g.players, playerId)
        hand == IF playerIndex = -1 THEN <<>> ELSE g.players[playerIndex + 1].hand
        held == IF g.drawnCard = NoCard THEN <<>> ELSE <<g.drawnCard>>
        top == IF g.discardPile = <<>> THEN <<>> ELSE <<Top(g.discardPile)>>
        shown == hand \o held \o top
    IN  {shown[k].id : k \in 1..Len(shown)}

Next ==
    \/ \E playerId \in PlayerIds, selectedColor \in SelectedColors :
          \E cardId \in shownCardIds(game, playerId) :
              PlayCard(playerId, cardId, selectedColor)
    \/ \E playerId \in PlayerIds : DrawCard(playerId)
    \/ \E playerId \in PlayerIds : PassTurn(playerId)
    \/ \E playerId \in PlayerIds : CallUno(playerId)
    \/ \E playerId \in PlayerIds : PlayerJoined(playerId)
    \/ \E playerId \in PlayerIds : PlayerLeft(playerId)
    \/ Discard

Spec == Init /\ [][Next]_vars

SoloSpec == SoloInit /\ [][Next]_vars

SetupSpec == SetupInit /\ [][Next]_vars

-----------------------------------------------------------------------------
(* Vocabulary of the properties.                                           *)

Actions == {"playCard", "drawCard", "passTurn", "callUno"}

InRoster(g, playerId) == findIndex(g.players, playerId) # -1

\* The id of the player at currentPlayerIndex, NoPlayer for an empty roster.
CurrentId(g) ==
    IF g.currentPlayerIndex + 1 \in 1..Len(g.players)
    THEN g.players[g.currentPlayerIndex + 1].id ELSE NoPlayer

PlayerOf(g, playerId) == g.players[findIndex(g.players, playerId) + 1]

IdsOf(cards) == {cards[k].id : k \in 1..Len(cards)}

\* Number of places of a sequence of cards that hold the identifier.
RECURSIVE Occurrences(_, _)
Occurrences(cards, id) ==
    IF cards = <<>> THEN 0
    ELSE (IF Head(cards).id = id THEN 1 ELSE 0) + Occurrences(Tail(cards), id)

RECURSIVE HandsOccurrences(_, _)
HandsOccurrences(players, id) ==
    IF players = <<>> THEN 0
    ELSE Occurrences(Head(players).hand, id) + HandsOccurrences(Tail(players), id)

RECURSIVE CacheOccurrences(_, _, _)
CacheOccurrences(cache, ids, id) ==
    IF ids = {} THEN 0
    ELSE LET p == CHOOSE q \in ids : TRUE
         IN  Occurrences(cache[p], id) + CacheOccurrences(cache, ids \ {p}, id)

\* How many times the identifier occurs in deck, discard pile, hands, held
\* drawn card and cached hands together.
Copies(g, id) ==
    Occurrences(g.deck, id) + Occurrences(g.discardPile, id)
    + HandsOccurrences(g.players, id)
    + (IF g.drawnCard.id = id THEN 1 ELSE 0)
    + CacheOccurrences(g.playerCache, DOMAIN g.playerCache, id)

\* The card a playCard of cardId by the current player resolves to.
ResolvedCard(g, cardId) ==
    LET hand == PlayerOf(g, CurrentId(g)).hand
        k == findCardIndex(hand, cardId)
    IN  IF k # -1 THEN hand[k + 1]
        ELSE IF g.drawnCard.id = cardId THEN g.drawnCard ELSE NoCard

-----------------------------------------------------------------------------
(* C1  Card conservation: in every reachable state each card built at     *)
(* setup is present exactly once in deck, discard pile, hands, held drawn *)
(* card and cached hands together.                                        *)
CardConservation == \A id \in CardIds : Copies(game, id) = 1

-----------------------------------------------------------------------------
(* C2  All-or-nothing rejection: a call that throws leaves every field of *)
(* the game state as it was before the call.                              *)
RejectionLeavesState == attempt.op # "none" => attempt.left = game

\* A callUno of the current player was rejected for a hand of three or
\* more cards.
RejectedCallUnoReached ==
    /\ attempt.op = "callUno"
    /\ attempt.line = 424
    /\ attempt.playerId = CurrentId(game)
    /\ Len(PlayerOf(game, attempt.playerId).hand) > 2

-----------------------------------------------------------------------------
(* C3  Turn enforcement: every action submitted for a player id that is   *)
(* not the player at currentPlayerIndex is rejected, also for an id that  *)
(* is not in the roster and for any id when the roster is empty: the      *)
(* actions that take effect are those of the player whose turn it was,    *)
(* and the rejected ones of any other id stopped before changing state.   *)
OnlyCurrentPlayerActs ==
    /\ last.op \in Actions => last.playerId = CurrentId(prev)
    /\ (attempt.op \in Actions /\ attempt.playerId # CurrentId(game)) =>
          /\ attempt.left = game
          /\ attempt.line \in {247, 366, 400, 418, 429}

\* A playCard of a seated player other than the current one, who holds a
\* card of the active colour, was rejected by the turn test.
OutOfTurnPlayReached ==
    /\ attempt.op = "playCard"
    /\ attempt.line = 247
    /\ InRoster(game, attempt.playerId)
    /\ attempt.playerId # CurrentId(game)
    /\ \E k \in 1..Len(PlayerOf(game, attempt.playerId).hand) :
          PlayerOf(game, attempt.playerId).hand[k].color = game.currentColor

-----------------------------------------------------------------------------
(* C4  Stack-or-absorb: with drawStack > 0 and a drawTwo or wildDrawFour  *)
(* on top of the discard pile, a playCard of the current player is        *)
(* accepted only for a drawTwo or a wildDrawFour.                         *)
StackOrAbsorb ==
    (attempt.op = "none" /\ game.drawStack > 0
        /\ IsDrawCardValue(Top(game.discardPile).value)) =>
        \A c \in CardIds, col \in SelectedColors :
            \A r \in playCard(game, CurrentId(game), c, col) :
                r.ok => IsDrawCardValue(ResolvedCard(game, c).value)

-----------------------------------------------------------------------------
(* Vocabulary for the latest accepted playCard (prev, last, game).         *)

\* The latest step was an accepted playCard and no rejected action is
\* pending (a pending rejection shows the same game, prev and last).
JustPlayed == attempt.op = "none" /\ last.op = "playCard"

ActorIndex == prev.currentPlayerIndex

PlayedCard == ResolvedCard(prev, last.cardId)

PlayedFromHand ==
    findCardIndex(prev.players[ActorIndex + 1].hand, last.cardId) # -1

\* The acting player's hand once the played card has left it.
RemainingHand ==
    LET hand == prev.players[ActorIndex + 1].hand
    IN  IF PlayedFromHand THEN Splice(hand, findCardIndex(hand, last.cardId))
        ELSE hand

WinningPlay == JustPlayed /\ Len(RemainingHand) = 0

\* The entries of lastAction with the tag.
Logged(g, tag) == {k \in 1..Len(g.lastAction) : g.lastAction[k][1] = tag}

-----------------------------------------------------------------------------
(* C5  Colour/value matching: with drawStack = 0, a playCard by the       *)
(* current player of a coloured card of their hand, or their held drawn   *)
(* card, is accepted iff its colour is the active colour or its value is  *)
(* the value of the top discard card; once accepted the card is the top   *)
(* of the discard pile and the active colour is the card's colour.        *)
ColourValueMatching ==
    (attempt.op = "none" /\ game.drawStack = 0 /\ CurrentId(game) # NoPlayer) =>
        \A c \in shownCardIds(game, CurrentId(game)), col \in SelectedColors :
            LET card == ResolvedCard(game, c)
                matches == \/ card.color = game.currentColor
                           \/ card.value = Top(game.discardPile).value
            IN  (card # NoCard /\ card.color # NoColor) =>
                    \A r \in playCard(game, CurrentId(game), c, col) :
                        /\ r.ok <=> matches
                        /\ r.ok => /\ Top(r.game.discardPile) = card
                                   /\ r.game.currentColor = card.color

\* A coloured card was played on a value match alone and changed the
\* active colour.
ValueMatchPlayReached ==
    /\ JustPlayed
    /\ prev.drawStack = 0
    /\ PlayedCard.color # NoColor
    /\ PlayedCard.color # prev.currentColor
    /\ PlayedCard.value = Top(prev.discardPile).value
    /\ Top(game.discardPile) = PlayedCard
    /\ game.currentColor = PlayedCard.color

-----------------------------------------------------------------------------
-----------------------------------------------------------------------------
(* C7  Winning play: an accepted playCard that empties the acting         *)
(* player's hand sets winner to that player; no card is drawn, the turn,  *)
(* direction and drawStack keep their values, no other hand changes;      *)
(* only the discard pile, the active colour, lastAction and the place     *)
(* the card came from change.                                             *)
WinningPlayFrame ==
    WinningPlay =>
        /\ game.winner = last.playerId
        /\ game.deck = prev.deck
        /\ game.currentPlayerIndex = prev.currentPlayerIndex
        /\ game.direction = prev.direction
        /\ game.drawStack = prev.drawStack
        /\ game.playerCache = prev.playerCache
        /\ game.discardPile = Append(prev.discardPile, PlayedCard)
        /\ game.currentColor = IF PlayedCard.color = NoColor
                               THEN last.selectedColor ELSE PlayedCard.color
        /\ game.drawnCard = IF PlayedFromHand THEN prev.drawnCard ELSE NoCard
        /\ Len(game.lastAction) = 1
        /\ Len(game.players) = Len(prev.players)
        /\ \A k \in 1..Len(prev.players) :
              game.players[k] =
                  IF k = ActorIndex + 1
                  THEN [prev.players[k] EXCEPT !.hand = <<>>]
                  ELSE prev.players[k]

\* A player emptied their hand with a skip, reverse, drawTwo or
\* wildDrawFour while other players were seated.
WinningEffectCardReached ==
    /\ WinningPlay
    /\ Len(prev.players) >= 2
    /\ PlayedCard.value \in {"skip", "reverse", "drawTwo", "wildDrawFour"}
    /\ game.winner = last.playerId

-----------------------------------------------------------------------------
(* C8  Game over exactly once: Rune.gameOver is called at most once, and  *)
(* a winner, once set, never changes.                                     *)
GameOverOnce ==
    /\ gameOverReports <= 1
    /\ prev.winner # NoPlayer => game.winner = prev.winner

-----------------------------------------------------------------------------
(* Vocabulary for the draws of the latest accepted playCard.               *)

ActorCalledUno == prev.players[ActorIndex + 1].hasCalledUno

ActorHand == PlayerOf(game, last.playerId).hand

\* Cards a draw loop can obtain in prev once the played card lies on the
\* pile: the deck and, through one recycling, the pile below the new top.
Obtainable == Len(prev.deck) + Len(prev.discardPile)

\* The cards of the catch-penalty.
PenaltyDue == Len(RemainingHand) = 1 /\ ~ActorCalledUno

PenaltyDrawn == IF PenaltyDue THEN Min(2, Obtainable) ELSE 0

\* The ids lastAction names as having drawn the stack, with the amount.
ForcedEntries == {game.lastAction[k] : k \in Logged(game, "draws")}

ActorForced == \E e \in ForcedEntries : e[2] = last.playerId

StackAdded ==
    IF PlayedCard.value = "drawTwo" THEN 2
    ELSE IF PlayedCard.value = "wildDrawFour" THEN 4 ELSE 0

-----------------------------------------------------------------------------
(* C9  Catch-penalty: after an accepted playCard that leaves the acting   *)
(* player one card, the player draws nothing if hasCalledUno was set and  *)
(* two cards if it was not; the penalty cards are the first to leave the  *)
(* deck in that transition.                                               *)

\* The claim as stated: exactly two cards whenever the flag was not set.
CatchPenaltyExactlyTwo ==
    (JustPlayed /\ Len(RemainingHand) = 1 /\ ~ActorForced) =>
        Len(ActorHand) = IF ActorCalledUno THEN 1 ELSE 3

\* Amended: two cards, or the cards that can still be obtained if fewer.
CatchPenalty ==
    (JustPlayed /\ Len(RemainingHand) = 1) =>
        /\ ActorHand[1] = RemainingHand[1]
        /\ Len(ActorHand) >= 1 + PenaltyDrawn
        /\ ~ActorForced => Len(ActorHand) = 1 + PenaltyDrawn
        /\ (Logged(game, "Forgot UNO") # {}) <=> ~ActorCalledUno
        /\ (~ActorCalledUno /\ Len(prev.deck) >= 2) =>
              /\ ActorHand[2] = Top(prev.deck)
              /\ ActorHand[3] = prev.deck[Len(prev.deck) - 1]
        /\ (ActorCalledUno /\ ~ActorForced) =>
              PlayerOf(game, last.playerId).hasCalledUno

\* A player forgot to call UNO, drew the two top cards, and the next
\* player was then forced to draw a stack from below them.
PenaltyBeforeForcedDrawReached ==
    /\ JustPlayed
    /\ Len(RemainingHand) = 1
    /\ ~ActorCalledUno
    /\ ~ActorForced
    /\ ForcedEntries # {}
    /\ Len(ActorHand) = 3
    /\ ActorHand[2] = Top(prev.deck)

\* A player who had called UNO went down to one card and drew nothing.
DeclaredPlayReached ==
    /\ JustPlayed
    /\ Len(RemainingHand) = 1
    /\ ActorCalledUno
    /\ ActorHand = RemainingHand

-----------------------------------------------------------------------------
(* C10  Draw-stack chain: an accepted drawTwo adds 2 and an accepted      *)
(* wildDrawFour adds 4 to drawStack; the stack only grows until one       *)
(* player draws it, and that player receives the accumulated amount.      *)

\* The hand of the player the latest playCard forced to draw, before and
\* after the transition.
ForcedGrowth(id) ==
    Len(PlayerOf(game, id).hand)
    - (IF id = last.playerId THEN Len(RemainingHand) + PenaltyDrawn
       ELSE Len(PlayerOf(prev, id).hand))

\* The claim as stated: every accepted draw card adds its amount, and the
\* player who draws the stack receives all of it.
DrawStackPaidInFull ==
    /\ (JustPlayed /\ IsDrawCardValue(PlayedCard.value)) =>
          \/ game.drawStack = prev.drawStack + StackAdded /\ ForcedEntries = {}
          \/ /\ game.drawStack = 0
             /\ \E e \in ForcedEntries :
                   /\ e[3] = prev.drawStack + StackAdded
                   /\ ForcedGrowth(e[2]) = e[3]
    /\ (last.op = "drawCard" /\ prev.drawStack > 0) =>
          Len(ActorHand) = Len(prev.players[ActorIndex + 1].hand) + prev.drawStack

\* Amended: a winning play adds nothing, and the player who draws the
\* stack receives the accumulated amount or, if fewer can be obtained,
\* all the cards that can.
DrawStackChain ==
    /\ WinningPlay => game.drawStack = prev.drawStack
    /\ (JustPlayed /\ ~WinningPlay) =>
          \/ game.drawStack = prev.drawStack + StackAdded /\ ForcedEntries = {}
          \/ /\ game.drawStack = 0
             /\ \E e \in ForcedEntries :
                   /\ e[3] = prev.drawStack + StackAdded
                   /\ e[3] > 0
                   /\ ForcedGrowth(e[2]) = Min(e[3], Obtainable - PenaltyDrawn)
    /\ (last.op = "drawCard" /\ prev.drawStack > 0) =>
          /\ game.drawStack = 0
          /\ Len(ActorHand) = Len(prev.players[ActorIndex + 1].hand)
                + Min(prev.drawStack, Len(prev.deck) + Len(prev.discardPile) - 1)
    /\ last.op \notin {"playCard", "drawCard"} => game.drawStack = prev.drawStack
    /\ game.drawStack >= prev.drawStack \/ game.drawStack = 0

\* The third draw card in a row was stacked and the next player, holding
\* no draw card, drew the whole accumulated stack.
ChainDrawnReached ==
    /\ JustPlayed
    /\ ~WinningPlay
    /\ IsDrawCardValue(PlayedCard.value)
    /\ IsDrawCardValue(Top(prev.discardPile).value)
    /\ prev.drawStack >= 4
    /\ game.drawStack = 0
    /\ \E e \in ForcedEntries :
          e[3] = prev.drawStack + StackAdded /\ ForcedGrowth(e[2]) = e[3]

-----------------------------------------------------------------------------
(* Vocabulary for the forced draw of the latest accepted playCard.         *)

\* The seat the turn reached by the effect of the played card, before any
\* forced draw.
VictimIndex ==
    LET n == Len(prev.players)
        hops == IF PlayedCard.value = "skip"
                   \/ (PlayedCard.value = "reverse" /\ n = 2) THEN 2 ELSE 1
    IN  (ActorIndex + hops * game.direction + 2 * n) % n

\* That player's hand when the turn reached them: for the acting player,
\* the remaining hand and the penalty cards.
VictimHandBefore ==
    IF VictimIndex = ActorIndex
    THEN SubSeq(ActorHand, 1, Len(RemainingHand) + PenaltyDrawn)
    ELSE prev.players[VictimIndex + 1].hand

VictimHand == game.players[VictimIndex + 1].hand

StackDue == prev.drawStack + StackAdded

ForcedDrawCase ==
    /\ JustPlayed
    /\ ~WinningPlay
    /\ StackDue > 0
    /\ ~hasStackable(VictimHandBefore)

-----------------------------------------------------------------------------
(* C11  Immediate forced draw: after an accepted non-winning playCard, if *)
(* the draw stack is non-zero once the turn has advanced and the new      *)
(* current player holds no drawTwo and no wildDrawFour, that player's     *)
(* hand grows by the draw-stack amount, the stack becomes 0 and the turn  *)
(* advances one more step in the current direction.                       *)

\* The claim as stated: the hand grows by exactly the amount.
ForcedDrawInFull ==
    ForcedDrawCase =>
        /\ Len(VictimHand) = Len(VictimHandBefore) + StackDue
        /\ game.drawStack = 0
        /\ game.currentPlayerIndex =
              getNextPlayerIndex(VictimIndex, game.direction, Len(game.players))

\* Amended: by the amount, or by all the cards that can be obtained if
\* they are fewer; a player who holds a draw card is left to answer.
ImmediateForcedDraw ==
    /\ ForcedDrawCase =>
          /\ Len(VictimHand) = Len(VictimHandBefore)
                + Min(StackDue, Obtainable - PenaltyDrawn)
          /\ SubSeq(VictimHand, 1, Len(VictimHandBefore)) = VictimHandBefore
          /\ game.drawStack = 0
          /\ game.currentPlayerIndex =
                getNextPlayerIndex(VictimIndex, game.direction, Len(game.players))
    /\ (JustPlayed /\ ~WinningPlay /\ StackDue > 0
           /\ hasStackable(VictimHandBefore)) =>
          /\ VictimHand = VictimHandBefore
          /\ game.drawStack = StackDue
          /\ game.currentPlayerIndex = VictimIndex

\* A wildDrawFour on an empty stack: the next of several players, holding
\* no draw card, drew four cards and lost the turn.
WildDrawFourForcedReached ==
    /\ ForcedDrawCase
    /\ PlayedCard.value = "wildDrawFour"
    /\ prev.drawStack = 0
    /\ Len(prev.players) >= 2
    /\ VictimIndex # ActorIndex
    /\ Len(VictimHand) = Len(VictimHandBefore) + 4
    /\ game.drawStack = 0
    /\ game.currentPlayerIndex # VictimIndex

-----------------------------------------------------------------------------
(* Vocabulary for the draws of the latest accepted action or event.        *)

\* The identifiers of the cards in hands and in the held slot.
InHands(g) ==
    UNION {IdsOf(g.players[k].hand) : k \in 1..Len(g.players)}
    \cup (IF g.drawnCard = NoCard THEN {} ELSE {g.drawnCard.id})

\* The cards the transition moved into a hand or into the held slot.
NewlyDrawn == InHands(game) \ InHands(prev)

\* The discard pile the draws of the transition start from.
PileAtDraw ==
    IF JustPlayed THEN Append(prev.discardPile, PlayedCard) ELSE prev.discardPile

\* The number of cards the transition has to draw.
DrawsRequired ==
    CASE last.op = "drawCard" -> IF prev.drawStack > 0 THEN prev.drawStack ELSE 1
      [] JustPlayed ->
            IF WinningPlay THEN 0
            ELSE (IF PenaltyDue THEN 2 ELSE 0)
                 + (IF ForcedEntries # {} THEN StackDue ELSE 0)
      [] last.op = "playerJoined" ->
            IF InRoster(prev, last.playerId)
               \/ last.playerId \in DOMAIN prev.playerCache
            THEN 0 ELSE HandSize
      [] OTHER -> 0

\* A draw of the transition found the deck empty and cards under the top
\* of the discard pile.
DrawOnEmptyDeck ==
    /\ DrawsRequired > Len(prev.deck)
    /\ Len(PileAtDraw) > 1

-----------------------------------------------------------------------------
(* C12  Reshuffle correctness: whenever a card must be drawn while the    *)
(* deck is empty and the discard pile holds more than one card, the draw  *)
(* succeeds; afterwards the discard pile is exactly the former top card,  *)
(* the cards that were under it are exactly the new deck plus the cards   *)
(* just drawn, and no wild or wildDrawFour in the deck carries a colour.  *)
ReshuffleCorrect ==
    /\ DrawOnEmptyDeck =>
          /\ Cardinality(NewlyDrawn) > Len(prev.deck)
          /\ Cardinality(NewlyDrawn) =
                Min(DrawsRequired, Len(prev.deck) + Len(PileAtDraw) - 1)
          /\ game.discardPile = <<Top(PileAtDraw)>>
          /\ IdsOf(game.deck) \cup NewlyDrawn =
                IdsOf(prev.deck) \cup IdsOf(Pop(PileAtDraw))
          /\ Len(game.deck) + Cardinality(NewlyDrawn) =
                Len(prev.deck) + Len(PileAtDraw) - 1
    /\ \A k \in 1..Len(game.deck) :
          IsWildValue(game.deck[k].value) => game.deck[k].color = NoColor

\* A drawCard on an empty deck recycled the cards under the top of the
\* discard pile and put one of them into the held slot.
RecycledDrawReached ==
    /\ last.op = "drawCard"
    /\ prev.deck = <<>>
    /\ Len(prev.discardPile) > 1
    /\ game.drawnCard # NoCard
    /\ game.drawnCard.id \in IdsOf(Pop(prev.discardPile))
    /\ game.discardPile = <<Top(prev.discardPile)>>

-----------------------------------------------------------------------------
(* C13  Exhaustion degrades without a fault: when the deck is empty and   *)
(* the discard pile holds only its top card, every required draw (paying  *)
(* a stack through drawCard, the forced draw and the catch-penalty inside *)
(* playCard, dealing a hand in playerJoined) adds only the cards that are *)
(* available, possibly none, and the transition still completes without   *)
(* an invalid action: the stack is zeroed and the turn advances as usual. *)

\* The cards the draws of the transition can obtain.
Available == Len(prev.deck) + Len(PileAtDraw) - 1

\* The transition had to draw more cards than could be obtained.
Exhausted == DrawsRequired > Available

ExhaustionDegrades ==
    /\ Exhausted =>
          /\ Cardinality(NewlyDrawn) = Available
          /\ game.deck = <<>>
          /\ game.discardPile = <<Top(PileAtDraw)>>
          /\ last.op = "drawCard" =>
                /\ game.drawStack = 0
                /\ game.currentPlayerIndex =
                      getNextPlayerIndex(prev.currentPlayerIndex, prev.direction,
                                         Len(prev.players))
          /\ (JustPlayed /\ ForcedEntries # {}) =>
                /\ game.drawStack = 0
                /\ game.currentPlayerIndex =
                      getNextPlayerIndex(VictimIndex, game.direction,
                                         Len(game.players))
          /\ (JustPlayed /\ ForcedEntries = {}) =>
                /\ game.drawStack = StackDue
                /\ game.currentPlayerIndex = VictimIndex
          /\ last.op = "playerJoined" =>
                /\ Len(game.players) = Len(prev.players) + 1
                /\ Top(game.players).id = last.playerId
                /\ Len(Top(game.players).hand) = Available
                /\ game.currentPlayerIndex = prev.currentPlayerIndex
    /\ (attempt.op = "drawCard" /\ attempt.playerId = CurrentId(game)) =>
          /\ game.drawStack = 0
          /\ attempt.line = 389 => game.deck = <<>> /\ Len(game.discardPile) = 1
    /\ attempt.op = "playCard" => attempt.line \in {247, 258, 268, 275}

\* A player paid a stack through drawCard when fewer cards than the stack
\* could be obtained: the stack was zeroed and the turn moved on.
UnderDealtPaymentReached ==
    /\ last.op = "drawCard"
    /\ prev.drawStack > 0
    /\ Exhausted
    /\ Cardinality(NewlyDrawn) < prev.drawStack
    /\ game.drawStack = 0
    /\ Len(prev.players) >= 2
    /\ game.currentPlayerIndex # prev.currentPlayerIndex

-----------------------------------------------------------------------------
(* Vocabulary for the state setup returns.                                 *)

AfterSetup == last.op = "setup"

StartCard == game.discardPile[1]

-----------------------------------------------------------------------------
(* C14  Setup postcondition: the initial state has every player's hand of *)
(* exactly HandSize cards unless the start card is a drawTwo, a discard   *)
(* pile of exactly one card that is never a wildDrawFour, an active       *)
(* colour equal to the start card's colour (red for a plain wild), no     *)
(* winner, no held drawn card, an empty cache, and all flags false.       *)
SetupPostcondition ==
    AfterSetup =>
        /\ Len(game.players) \in 1..3
        /\ StartCard.value # "drawTwo" =>
              \A k \in 1..Len(game.players) : Len(game.players[k].hand) = HandSize
        /\ Len(game.discardPile) = 1
        /\ StartCard.value # "wildDrawFour"
        /\ game.currentColor =
              IF StartCard.color # NoColor THEN StartCard.color ELSE "red"
        /\ StartCard.value = "wild" => game.currentColor = "red"
        /\ game.winner = NoPlayer
        /\ game.drawnCard = NoCard
        /\ DOMAIN game.playerCache = {}
        /\ \A k \in 1..Len(game.players) : ~game.players[k].hasCalledUno

\* Setup for three players flipped a plain wild: the active colour is red.
WildStartReached ==
    /\ AfterSetup
    /\ Len(game.players) = 3
    /\ StartCard.value = "wild"
    /\ game.currentColor = "red"
    /\ \A k \in 1..3 : Len(game.players[k].hand) = HandSize

-----------------------------------------------------------------------------
(* C15  Start-card turn effects: after setup, a skip start card makes the *)
(* current player index 1 modulo the player count with direction +1; a    *)
(* reverse start card with exactly two players makes the index 1 with     *)
(* direction +1; a reverse start card with three or more players leaves   *)
(* the index at 0 and sets direction to -1; any numeral or wild start     *)
(* card leaves index 0 and direction +1.                                  *)
StartCardTurnEffects ==
    AfterSetup =>
        LET n == Len(game.players)
            v == StartCard.value
        IN  /\ v = "skip" =>
                  game.currentPlayerIndex = 1 % n /\ game.direction = 1
            /\ (v = "reverse" /\ n = 2) =>
                  game.currentPlayerIndex = 1 /\ game.direction = 1
            /\ (v = "reverse" /\ n >= 3) =>
                  game.currentPlayerIndex = 0 /\ game.direction = -1
            /\ v \in {"0", "wild"} =>
                  game.currentPlayerIndex = 0 /\ game.direction = 1

\* Setup for two players flipped a reverse: the second player starts and
\* the direction is +1.
ReverseStartForTwoReached ==
    /\ AfterSetup
    /\ Len(game.players) = 2
    /\ StartCard.value = "reverse"
    /\ game.currentPlayerIndex = 1
    /\ game.direction = 1

-----------------------------------------------------------------------------
(* C16  Start-card drawTwo is charged exactly once: after setup with a    *)
(* drawTwo start card either the draw stack is 2 and every player holds   *)
(* HandSize cards, or one player holds HandSize + 2 cards and the draw    *)
(* stack is 0; never both a player who already drew the two cards and a   *)
(* draw stack of 2 still pending.                                         *)
StartDrawTwoChargedOnce ==
    (AfterSetup /\ StartCard.value = "drawTwo") =>
        LET n == Len(game.players)
            extra == {k \in 1..n : Len(game.players[k].hand) = HandSize + 2}
            plain == {k \in 1..n : Len(game.players[k].hand) = HandSize}
        IN  \/ game.drawStack = 2 /\ Cardinality(plain) = n
            \/ /\ game.drawStack = 0
               /\ Cardinality(extra) = 1
               /\ Cardinality(plain) = n - 1

-----------------------------------------------------------------------------
(* C17  Leave then rejoin round-trip: if a player leaves and the same id  *)
(* later joins again, the rejoined player's hand is exactly the hand held *)
(* at the moment of leaving, none of those cards was dealt or reshuffled  *)
(* to anyone in between, the cache entry for that id is removed, and the  *)
(* player is appended at the end of the turn order with the flag false.   *)
(* Stated step by step: a leave stores the hand; every later step but the *)
(* rejoin keeps the stored hand and keeps its cards out of the deck, the  *)
(* discard pile, the hands and the held slot; the rejoin hands it back.   *)

Left == last.op = "playerLeft" /\ InRoster(prev, last.playerId)

Rejoined ==
    /\ last.op = "playerJoined"
    /\ ~InRoster(prev, last.playerId)
    /\ last.playerId \in DOMAIN prev.playerCache

\* The identifiers of the cards in the deck, the discard pile, the hands
\* and the held slot.
InCirculation(g) == IdsOf(g.deck) \cup IdsOf(g.discardPile) \cup InHands(g)

LeaveRejoinRoundTrip ==
    /\ Left => /\ last.playerId \in DOMAIN game.playerCache
               /\ game.playerCache[last.playerId] = PlayerOf(prev, last.playerId).hand
               /\ ~InRoster(game, last.playerId)
    /\ \A id \in DOMAIN prev.playerCache :
          ~(Rejoined /\ last.playerId = id) =>
              /\ id \in DOMAIN game.playerCache
              /\ game.playerCache[id] = prev.playerCache[id]
    /\ \A id \in DOMAIN game.playerCache :
          /\ ~InRoster(game, id)
          /\ IdsOf(game.playerCache[id]) \cap InCirculation(game) = {}
    /\ Rejoined =>
          /\ Len(game.players) = Len(prev.players) + 1
          /\ SubSeq(game.players, 1, Len(prev.players)) = prev.players
          /\ Top(game.players) = [id |-> last.playerId,
                                   hand |-> prev.playerCache[last.playerId],
                                   hasCalledUno |-> FALSE]
          /\ last.playerId \notin DOMAIN game.playerCache
          /\ game.deck = prev.deck
          /\ game.discardPile = prev.discardPile

\* A player who had left came back behind another seated player, after
\* cards had been drawn from the deck, and holds the stored hand again.
RejoinedWithHandReached ==
    /\ Rejoined
    /\ Len(prev.players) >= 1
    /\ Len(prev.playerCache[last.playerId]) >= HandSize
    /\ Top(game.players).hand = prev.playerCache[last.playerId]
    /\ DOMAIN game.playerCache = {}
    /\ game.drawnCard # NoCard

-----------------------------------------------------------------------------
(* C18  Turn pointer validity: in every reachable state the current       *)
(* player index is at least 0 and below the number of players whenever    *)
(* the roster is non-empty, and is 0 when the roster is empty; direction  *)
(* is always +1 or -1.                                                    *)
TurnPointerValid ==
    /\ game.direction \in {1, -1}
    /\ game.currentPlayerIndex \in Int
    /\ Len(game.players) > 0 =>
          game.currentPlayerIndex \in 0..(Len(game.players) - 1)
    /\ Len(game.players) = 0 => game.currentPlayerIndex = 0

\* The current player, seated last, left while others stayed: the turn
\* wrapped to the first seat.
LastSeatLeftReached ==
    /\ Left
    /\ Len(prev.players) >= 2
    /\ prev.currentPlayerIndex = Len(prev.players) - 1
    /\ last.playerId = CurrentId(prev)
    /\ game.currentPlayerIndex = 0

-----------------------------------------------------------------------------
(* C19  Turn state machine with a held card: once the current player      *)
(* holds a drawn card, the only accepted actions that end their turn are  *)
(* playCard of that held card and passTurn; a playCard naming another     *)
(* card of the hand is not an accepted transition out of the state.       *)
HeldCardTurn ==
    (last.op \in Actions /\ prev.drawnCard # NoCard) =>
        /\ last.op = "playCard" => last.cardId = prev.drawnCard.id
        /\ (game.drawnCard = NoCard
               \/ game.currentPlayerIndex # prev.currentPlayerIndex) =>
              last.op \in {"playCard", "passTurn"}

-----------------------------------------------------------------------------
(* C20  Paying the stack with drawCard: when the current player calls     *)
(* drawCard while the draw stack is n > 0, their hand grows by n cards    *)
(* (the deck being recycled as needed), the draw stack becomes 0, their   *)
(* flag becomes false, the turn advances exactly one step in the current  *)
(* direction, and the held slot is still empty afterwards.                *)

StackPayment == last.op = "drawCard" /\ prev.drawStack > 0

PayerBefore == prev.players[ActorIndex + 1]

PayerAfter == game.players[ActorIndex + 1]

\* What the payment leaves apart from the number of cards drawn.
PaymentFrame ==
    /\ SubSeq(PayerAfter.hand, 1, Len(PayerBefore.hand)) = PayerBefore.hand
    /\ PayerAfter.id = PayerBefore.id
    /\ ~PayerAfter.hasCalledUno
    /\ game.drawStack = 0
    /\ game.direction = prev.direction
    /\ game.currentPlayerIndex =
          getNextPlayerIndex(prev.currentPlayerIndex, prev.direction,
                             Len(prev.players))
    /\ game.drawnCard = NoCard
    /\ Len(game.players) = Len(prev.players)
    /\ \A k \in 1..Len(prev.players) :
          k # ActorIndex + 1 => game.players[k] = prev.players[k]

\* The claim as stated: exactly n cards.
StackPaidExactly ==
    StackPayment =>
        /\ Len(PayerAfter.hand) = Len(PayerBefore.hand) + prev.drawStack
        /\ PaymentFrame

\* Amended: n cards, or all the cards that can be obtained if fewer.
StackPaidByDrawCard ==
    StackPayment =>
        /\ Len(PayerAfter.hand) = Len(PayerBefore.hand)
              + Min(prev.drawStack, Len(prev.deck) + Len(prev.discardPile) - 1)
        /\ PaymentFrame

\* A player who had called UNO paid a stack in full with drawCard next to
\* another player: the flag is cleared and the turn moved on.
FlaggedPayerReached ==
    /\ StackPayment
    /\ PayerBefore.hasCalledUno
    /\ Len(prev.players) >= 2
    /\ Len(PayerAfter.hand) = Len(PayerBefore.hand) + prev.drawStack
    /\ ~PayerAfter.hasCalledUno
    /\ game.currentPlayerIndex # prev.currentPlayerIndex

-----------------------------------------------------------------------------
(* C21  Voluntary draw: with draw stack 0 and no held card, an accepted   *)
(* drawCard moves exactly one card from the top of the deck into the held *)
(* slot, leaves the player's hand, the current player index and the       *)
(* direction unchanged, and clears the player's flag; a second drawCard   *)
(* by the same player before they play or pass is rejected.               *)

Drew == attempt.op = "none" /\ last.op = "drawCard" /\ prev.drawStack = 0

VoluntaryDraw ==
    /\ Drew =>
          /\ prev.drawnCard = NoCard
          /\ game.drawnCard # NoCard
          /\ prev.deck # <<>> =>
                /\ game.drawnCard = Top(prev.deck)
                /\ game.deck = Pop(prev.deck)
                /\ game.discardPile = prev.discardPile
          /\ prev.deck = <<>> =>
                /\ game.discardPile = <<Top(prev.discardPile)>>
                /\ game.drawnCard.id \in IdsOf(Pop(prev.discardPile))
                /\ IdsOf(game.deck) =
                      IdsOf(Pop(prev.discardPile)) \ {game.drawnCard.id}
                /\ Len(game.deck) = Len(prev.discardPile) - 2
          /\ game.players =
                [prev.players EXCEPT ![ActorIndex + 1].hasCalledUno = FALSE]
          /\ game.currentPlayerIndex = prev.currentPlayerIndex
          /\ game.direction = prev.direction
          /\ game.drawStack = 0
          /\ game.currentColor = prev.currentColor
          /\ game.winner = prev.winner
          /\ game.playerCache = prev.playerCache
    /\ (attempt.op = "none" /\ game.drawnCard # NoCard /\ game.drawStack = 0) =>
          \A p \in PlayerIds : \A r \in drawCard(game, p) : ~r.ok

\* The player who had just drawn a card asked for another one and was
\* rejected for the card they hold.
SecondDrawRejectedReached ==
    /\ attempt.op = "drawCard"
    /\ attempt.line = 385
    /\ attempt.playerId = CurrentId(game)
    /\ last.op = "drawCard"
    /\ last.playerId = attempt.playerId
    /\ game.drawnCard # NoCard
    /\ PlayerOf(game, last.playerId).hand = PlayerOf(prev, last.playerId).hand

-----------------------------------------------------------------------------
(* C22  passTurn: it is rejected when no drawn card is held or when the   *)
(* draw stack is non-zero; when accepted, the held card is appended to    *)
(* the acting player's hand, the held slot becomes empty, the player's    *)
(* flag becomes false, and the turn advances exactly one step in the      *)
(* current direction with deck, discard pile, active colour and draw      *)
(* stack unchanged.                                                       *)

Passed == attempt.op = "none" /\ last.op = "passTurn"

PassTurnEffect ==
    /\ Passed =>
          /\ prev.drawnCard # NoCard
          /\ prev.drawStack = 0
          /\ game.players =
                [prev.players EXCEPT
                    ![ActorIndex + 1].hand = Append(@, prev.drawnCard),
                    ![ActorIndex + 1].hasCalledUno = FALSE]
          /\ game.drawnCard = NoCard
          /\ game.currentPlayerIndex =
                getNextPlayerIndex(prev.currentPlayerIndex, prev.direction,
                                   Len(prev.players))
          /\ game.direction = prev.direction
          /\ game.deck = prev.deck
          /\ game.discardPile = prev.discardPile
          /\ game.currentColor = prev.currentColor
          /\ game.drawStack = prev.drawStack
          /\ game.winner = prev.winner
          /\ game.playerCache = prev.playerCache
    /\ (attempt.op = "none" /\ (game.drawnCard = NoCard \/ game.drawStack > 0)) =>
          \A p \in PlayerIds : \A r \in passTurn(game, p) : ~r.ok
    /\ (attempt.op = "passTurn" /\ attempt.playerId = CurrentId(game)) =>
          /\ attempt.line \in {401, 402}
          /\ attempt.line = 401 => game.drawnCard = NoCard
          /\ attempt.line = 402 => game.drawStack > 0

\* A player who had called UNO drew, passed next to another player and
\* holds the drawn card in hand with the flag cleared.
PassedWithCardReached ==
    /\ Passed
    /\ Len(prev.players) >= 2
    /\ Top(PlayerOf(game, last.playerId).hand) = prev.drawnCard
    /\ Len(PlayerOf(game, last.playerId).hand)
          = Len(PlayerOf(prev, last.playerId).hand) + 1
    /\ game.currentPlayerIndex # prev.currentPlayerIndex
    /\ game.drawnCard = NoCard

-----------------------------------------------------------------------------
(* C23  callUno: it is rejected when the current player's hand holds more *)
(* than two cards; when accepted it sets only that player's flag (and the *)
(* last-action text) and leaves hands, deck, discard pile, turn,          *)
(* direction, draw stack and held card unchanged, so it never ends the    *)
(* turn.                                                                  *)

CalledUno == attempt.op = "none" /\ last.op = "callUno"

CallUnoFrame ==
    /\ CalledUno =>
          /\ Len(prev.players[ActorIndex + 1].hand) <= 2
          /\ game = [prev EXCEPT
                        !.players[ActorIndex + 1].hasCalledUno = TRUE,
                        !.lastAction = game.lastAction]
    /\ (attempt.op = "none" /\ CurrentId(game) # NoPlayer
          /\ Len(PlayerOf(game, CurrentId(game)).hand) > 2) =>
          \A r \in callUno(game, CurrentId(game)) : ~r.ok

\* The current player declared with two cards in hand while holding a
\* drawn card: the flag is set and it is still their turn.
DeclaredWhileHoldingReached ==
    /\ CalledUno
    /\ Len(PlayerOf(prev, last.playerId).hand) = 2
    /\ ~PlayerOf(prev, last.playerId).hasCalledUno
    /\ PlayerOf(game, last.playerId).hasCalledUno
    /\ game.drawnCard # NoCard
    /\ CurrentId(game) = last.playerId

-----------------------------------------------------------------------------
(* C24  Skip effect in playCard: an accepted non-winning play of a skip   *)
(* card, or of a reverse card when the roster has exactly two players,    *)
(* advances the turn two steps in the unchanged direction, so with two    *)
(* players the acting player is the current player again and with three   *)
(* or more players the player one seat further is passed over.            *)

SkipPlayed ==
    /\ JustPlayed
    /\ ~WinningPlay
    /\ \/ PlayedCard.value = "skip"
       \/ PlayedCard.value = "reverse" /\ Len(prev.players) = 2

TwoSteps(g) ==
    getNextPlayerIndex(
        getNextPlayerIndex(g.currentPlayerIndex, g.direction, Len(g.players)),
        g.direction, Len(g.players))

\* The claim as stated.
SkipAdvancesTwo ==
    SkipPlayed =>
        /\ game.direction = prev.direction
        /\ game.currentPlayerIndex = TwoSteps(prev)

-----------------------------------------------------------------------------
(* C25  Reverse with three or more players: an accepted non-winning play  *)
(* of a reverse card negates direction and then advances the turn one     *)
(* step in the new direction (to the player who preceded the acting       *)
(* player); two such reverse plays in a row restore the original          *)
(* direction, and no other action or event ever changes direction.        *)

ReversePlayed ==
    /\ JustPlayed
    /\ ~WinningPlay
    /\ PlayedCard.value = "reverse"
    /\ Len(prev.players) >= 3

DirectionChanged == attempt.op = "none" /\ game.direction # prev.direction

\* The claim as stated.
ReverseNegatesDirection ==
    /\ game.direction \in {1, -1}
    /\ ReversePlayed =>
          /\ game.direction = prev.direction * (-1)
          /\ game.currentPlayerIndex =
                getNextPlayerIndex(prev.currentPlayerIndex, game.direction,
                                   Len(prev.players))
    /\ DirectionChanged => ReversePlayed

-----------------------------------------------------------------------------
(* C26  Stack left for a player who can answer: after an accepted         *)
(* non-winning playCard that ends with the draw stack greater than zero,  *)
(* the new current player's hand contains at least one drawTwo or         *)
(* wildDrawFour and that player has not been dealt any card by the        *)
(* transition.                                                            *)

StackLeft == JustPlayed /\ ~WinningPlay /\ game.drawStack > 0

CurrentHand == game.players[game.currentPlayerIndex + 1].hand

\* The claim as stated: the new current player holds no card they did not
\* hold before the play.
StackLeftUndealt ==
    StackLeft =>
        /\ hasStackable(CurrentHand)
        /\ IdsOf(CurrentHand)
              \subseteq IdsOf(prev.players[game.currentPlayerIndex + 1].hand)

\* Amended: no card of the stack is dealt; when the turn comes back to the
\* acting player, their hand is what the play left of it followed by the
\* cards of the penalty for not having called UNO.
StackLeftToAnswer ==
    StackLeft =>
        /\ game.currentPlayerIndex = VictimIndex
        /\ hasStackable(CurrentHand)
        /\ game.drawStack = StackDue
        /\ ForcedEntries = {}
        /\ VictimIndex # ActorIndex =>
              CurrentHand = prev.players[VictimIndex + 1].hand
        /\ VictimIndex = ActorIndex =>
              /\ Len(CurrentHand) = Len(RemainingHand) + PenaltyDrawn
              /\ SubSeq(CurrentHand, 1, Len(RemainingHand)) = RemainingHand

\* A drawTwo on an empty stack met a next player who holds a draw card:
\* the stack of 2 waits on their turn and their hand is untouched.
StackLeftForHolderReached ==
    /\ StackLeft
    /\ PlayedCard.value = "drawTwo"
    /\ prev.drawStack = 0
    /\ game.drawStack = 2
    /\ game.currentPlayerIndex # ActorIndex
    /\ hasStackable(CurrentHand)
    /\ CurrentHand = prev.players[game.currentPlayerIndex + 1].hand

-----------------------------------------------------------------------------
(* C27  Join: a playerJoined event for an id already in the roster        *)
(* changes nothing; for a new id without a cached hand it appends a       *)
(* player at the end of the turn order with a full hand taken from the    *)
(* deck (recycling the discard pile per card as needed) and a false       *)
(* low-hand flag; in both cases the player whose turn it is, the          *)
(* direction, the draw stack, the held drawn card and every existing hand *)
(* are unchanged.                                                         *)

Joined == attempt.op = "none" /\ last.op = "playerJoined"

JoinedFresh ==
    /\ Joined
    /\ ~InRoster(prev, last.playerId)
    /\ last.playerId \notin DOMAIN prev.playerCache

Newcomer == Top(game.players)

\* The claim as stated: the newcomer holds a full hand.
JoinDealsFullHand ==
    JoinedFresh => Len(Newcomer.hand) = HandSize

\* Amended: a full hand, or every card that can be obtained when these
\* are fewer.
JoinFrame ==
    /\ (Joined /\ InRoster(prev, last.playerId)) => game = prev
    /\ JoinedFresh =>
          /\ Newcomer.id = last.playerId
          /\ ~Newcomer.hasCalledUno
          /\ Len(Newcomer.hand) = Min(HandSize, Available)
          /\ IdsOf(Newcomer.hand)
                \subseteq IdsOf(prev.deck) \cup IdsOf(Pop(prev.discardPile))
          /\ Len(prev.deck) >= HandSize =>
                /\ \A i \in 1..HandSize :
                      Newcomer.hand[i] = prev.deck[Len(prev.deck) - i + 1]
                /\ game.deck = SubSeq(prev.deck, 1, Len(prev.deck) - HandSize)
                /\ game.discardPile = prev.discardPile
          /\ game.playerCache = prev.playerCache
    /\ (Joined /\ ~InRoster(prev, last.playerId)) =>
          /\ Len(game.players) = Len(prev.players) + 1
          /\ SubSeq(game.players, 1, Len(prev.players)) = prev.players
          /\ game.currentPlayerIndex = prev.currentPlayerIndex
          /\ prev.players # <<>> => CurrentId(game) = CurrentId(prev)
          /\ game.direction = prev.direction
          /\ game.drawStack = prev.drawStack
          /\ game.drawnCard = prev.drawnCard
          /\ game.currentColor = prev.currentColor
          /\ game.winner = prev.winner

\* A newcomer joined while the current player held a drawn card and a
\* full hand could be dealt from the deck alone.
JoinedDuringHoldReached ==
    /\ JoinedFresh
    /\ prev.drawnCard # NoCard
    /\ prev.currentPlayerIndex > 0
    /\ Len(prev.deck) >= HandSize
    /\ Len(Newcomer.hand) = HandSize
    /\ CurrentId(game) = CurrentId(prev)

-----------------------------------------------------------------------------
(* Vocabulary for the latest playerLeft event of a seated player.          *)

LeftSeat == findIndex(prev.players, last.playerId)

LeftOther ==
    attempt.op = "none" /\ Left /\ LeftSeat # prev.currentPlayerIndex

LeftCurrent ==
    attempt.op = "none" /\ Left /\ LeftSeat = prev.currentPlayerIndex

-----------------------------------------------------------------------------
(* C28  Leave of a non-current player: when a player other than the       *)
(* current one leaves (whether their index is before or after the current *)
(* index), the same player id is still the current player afterwards, and *)
(* the held drawn card, the draw stack, the direction and every remaining *)
(* hand are unchanged.                                                    *)

LeaveOfOtherFrame ==
    LeftOther =>
        /\ CurrentId(prev) # NoPlayer
        /\ CurrentId(game) = CurrentId(prev)
        /\ game.currentPlayerIndex =
              IF LeftSeat < prev.currentPlayerIndex
              THEN prev.currentPlayerIndex - 1 ELSE prev.currentPlayerIndex
        /\ game.drawnCard = prev.drawnCard
        /\ game.drawStack = prev.drawStack
        /\ game.direction = prev.direction
        /\ game.players = Splice(prev.players, LeftSeat)
        /\ game.deck = prev.deck
        /\ game.discardPile = prev.discardPile
        /\ game.currentColor = prev.currentColor

\* A player seated before the current one left while the current player
\* held a drawn card: the index moved down and the same player holds it.
EarlierSeatLeftReached ==
    /\ LeftOther
    /\ LeftSeat < prev.currentPlayerIndex
    /\ Len(prev.players) = 3
    /\ prev.drawnCard # NoCard
    /\ game.drawnCard = prev.drawnCard
    /\ game.currentPlayerIndex = prev.currentPlayerIndex - 1
    /\ CurrentId(game) = CurrentId(prev)

-----------------------------------------------------------------------------
(* C29  Leave of the current player: when the player whose turn it is     *)
(* leaves, their hand is stored in the cache under their id, the held     *)
(* drawn card slot becomes empty, the draw stack keeps its value, and the *)
(* turn passes to the player who sat at the next higher index (wrapping   *)
(* to index 0), whatever the direction is.                                *)

LeaveOfCurrent ==
    LeftCurrent =>
        /\ last.playerId \in DOMAIN game.playerCache
        /\ game.playerCache[last.playerId] = prev.players[LeftSeat + 1].hand
        /\ game.drawnCard = NoCard
        /\ game.drawStack = prev.drawStack
        /\ game.direction = prev.direction
        /\ game.players = Splice(prev.players, LeftSeat)
        /\ Len(prev.players) >= 2 =>
              CurrentId(game) =
                  prev.players[((LeftSeat + 1) % Len(prev.players)) + 1].id
        /\ Len(prev.players) = 1 =>
              game.currentPlayerIndex = 0 /\ CurrentId(game) = NoPlayer

\* With the direction reversed, the current player of three left from the
\* middle seat while holding a drawn card: the slot is empty and the turn
\* is with the player of the next higher seat, against the direction.
CurrentLeftReversedReached ==
    /\ LeftCurrent
    /\ Len(prev.players) = 3
    /\ LeftSeat = 1
    /\ prev.direction = -1
    /\ prev.drawnCard # NoCard
    /\ game.drawnCard = NoCard
    /\ game.drawStack = prev.drawStack
    /\ CurrentId(game) = prev.players[3].id
    /\ game.playerCache[last.playerId] = prev.players[2].hand

-----------------------------------------------------------------------------
(* C30  Held card and pending stack are mutually exclusive: in every      *)
(* state reachable between actions, a held drawn card and a draw stack    *)
(* greater than zero never coexist (so the draw-stack rejection in        *)
(* passTurn is never the reason a pass fails).                            *)

HeldOrStackNotBoth ==
    /\ ~(game.drawnCard # NoCard /\ game.drawStack > 0)
    /\ attempt.op = "passTurn" => attempt.line \in {400, 401}

\* The current player's pass failed on a pending stack: for want of a held
\* card, not by the test of the stack.
PassOnPendingStackReached ==
    /\ attempt.op = "passTurn"
    /\ attempt.playerId = CurrentId(game)
    /\ attempt.line = 401
    /\ game.drawStack > 0
    /\ game.drawnCard = NoCard
    /\ last.op = "playCard"

-----------------------------------------------------------------------------
(* C31  Active colour tracks the pile: in every reachable state, if the   *)
(* top card of the discard pile is a coloured card then the active colour *)
(* equals that card's colour; the active colour differs from the top      *)
(* card's own colour only when the top card is a wild or wildDrawFour,    *)
(* and recycling the discard pile into the deck changes neither the top   *)
(* card nor the active colour.                                            *)

TopCard == Top(game.discardPile)

\* The active colour the latest transition had to leave.
ColourDue ==
    IF JustPlayed
    THEN (IF PlayedCard.color = NoColor THEN last.selectedColor
          ELSE PlayedCard.color)
    ELSE prev.currentColor

Recycled == attempt.op = "none" /\ DrawOnEmptyDeck

ActiveColourTracksPile ==
    /\ \E k \in 1..Len(deckColors) : game.currentColor = deckColors[k]
    /\ TopCard.color # NoColor => game.currentColor = TopCard.color
    /\ game.currentColor # TopCard.color => IsWildValue(TopCard.value)
    /\ Recycled =>
          /\ TopCard = Top(PileAtDraw)
          /\ game.currentColor = ColourDue

\* A wild-family card with green chosen was on top when the pile under it
\* was recycled: it is still the top card and green is still active.
RecycledUnderWildReached ==
    /\ Recycled
    /\ game.discardPile = <<Top(PileAtDraw)>>
    /\ IsWildValue(TopCard.value)
    /\ TopCard.color = NoColor
    /\ game.currentColor = "green"
    /\ Cardinality(NewlyDrawn) > Len(prev.deck)

-----------------------------------------------------------------------------
(* C32  Declaration is consumed by the play: after an accepted            *)
(* non-winning playCard that leaves the acting player with more than one  *)
(* card in hand (including after a catch-penalty), that player's low-hand *)
(* flag is false; the flag survives the play only when the hand ends at   *)
(* exactly one card.                                                      *)

ActorFlag == PlayerOf(game, last.playerId).hasCalledUno

DeclarationConsumed ==
    (JustPlayed /\ ~WinningPlay) =>
        /\ Len(ActorHand) > 1 => ~ActorFlag
        /\ ActorFlag => ActorCalledUno /\ Len(ActorHand) = 1

-----------------------------------------------------------------------------
(* C33  A set low-hand flag implies a low hand: in every reachable state, *)
(* any player whose low-hand flag is set holds at most two cards in hand; *)
(* every path that adds cards to a player's hand (voluntary draw, pass,   *)
(* paying the stack, forced draw caused by another player's play) leaves  *)
(* that player's flag false.                                              *)

HandGrew(k) ==
    /\ k <= Len(prev.players)
    /\ prev.players[k].id = game.players[k].id
    /\ Len(game.players[k].hand) > Len(prev.players[k].hand)

FlagImpliesLowHand ==
    /\ \A k \in 1..Len(game.players) :
          game.players[k].hasCalledUno => Len(game.players[k].hand) <= 2
    /\ (attempt.op = "none" /\ last.op \in Actions) =>
          \A k \in 1..Len(game.players) :
              HandGrew(k) => ~game.players[k].hasCalledUno

-----------------------------------------------------------------------------
(* C34  The turn can always move on: in every reachable state with at     *)
(* least one player and no winner, at least one turn-ending or            *)
(* turn-progressing action of the current player is accepted (a playCard  *)
(* of some card they hold, a drawCard, or a passTurn), including when the *)
(* deck is empty and the discard pile holds only its top card.            *)

CanPlay(g) ==
    \E c \in shownCardIds(g, CurrentId(g)), col \in SelectedColors :
        \E r \in playCard(g, CurrentId(g), c, col) : r.ok

CanDraw(g) == \E r \in drawCard(g, CurrentId(g)) : r.ok

CanPass(g) == \E r \in passTurn(g, CurrentId(g)) : r.ok

TurnCanMoveOn ==
    (attempt.op = "none" /\ Len(game.players) >= 1 /\ game.winner = NoPlayer) =>
        CanPlay(game) \/ CanDraw(game) \/ CanPass(game)

-----------------------------------------------------------------------------
(* C35  A winner holds no cards: in the state where the winner field is   *)
(* first set, the winning player has an empty hand and there is no held   *)
(* drawn card belonging to them, i.e. a player who has drawn a card this  *)
(* turn and not yet played or passed it cannot be declared winner while   *)
(* that card is still held.                                               *)

WinnerFirstSet ==
    attempt.op = "none" /\ prev.winner = NoPlayer /\ game.winner # NoPlayer

WinnerHoldsNothing ==
    WinnerFirstSet =>
        /\ InRoster(game, game.winner)
        /\ PlayerOf(game, game.winner).hand = <<>>
        /\ game.drawnCard = NoCard

-----------------------------------------------------------------------------
(* C36  No card is ever duplicated: in every reachable state each card    *)
(* identifier occurs at most once across the deck, the discard pile, all  *)
(* hands, the held drawn card and all cached hands, and no player id is   *)
(* simultaneously in the roster and in the cache.                         *)

\* A pending rejection shows the state of the game it was thrown from, so
\* the states between calls are all the states of the game.
RECURSIVE HandsOf(_)
HandsOf(players) ==
    IF players = <<>> THEN <<>>
    ELSE Head(players).hand \o HandsOf(Tail(players))

RECURSIVE CachedOf(_, _)
CachedOf(cache, ids) ==
    IF ids = {} THEN <<>>
    ELSE LET p == CHOOSE q \in ids : TRUE
         IN  cache[p] \o CachedOf(cache, ids \ {p})

\* Every place of a card in the game, one after the other.
AllCards(g) ==
    g.deck \o g.discardPile \o HandsOf(g.players)
    \o (IF g.drawnCard = NoCard THEN <<>> ELSE <<g.drawnCard>>)
    \o CachedOf(g.playerCache, DOMAIN g.playerCache)

NoCardDuplicated ==
    attempt.op = "none" =>
        /\ Cardinality(IdsOf(AllCards(game))) = Len(AllCards(game))
        /\ IdsOf(AllCards(game)) \subseteq CardIds
        /\ \A id \in DOMAIN game.playerCache : ~InRoster(game, id)

\* The pile was recycled into the deck while a departed player's hand sat
\* in the cache.
RecycledWithCacheReached ==
    /\ Recycled
    /\ \E id \in DOMAIN game.playerCache : game.playerCache[id] # <<>>
    /\ Len(game.discardPile) = 1
    /\ Cardinality(NewlyDrawn) > Len(prev.deck)
    /\ Cardinality(IdsOf(AllCards(game))) = Len(AllCards(game))

-----------------------------------------------------------------------------
(* C37  The discard pile is never empty: in every reachable state, after  *)
(* setup and after any action or roster event (including a recycle of the *)
(* pile into the deck), the discard pile holds at least one card, so the  *)
(* top card used by the move validator always exists.                     *)

DiscardPileNeverEmpty ==
    /\ Len(game.discardPile) >= 1
    /\ TopCard.id \in CardIds
    /\ Recycled => Len(game.discardPile) = 1

\* A recycle that could not supply every card due: the deck is empty
\* again and the pile is down to its top card.
PileDownToTopReached ==
    /\ Recycled
    /\ Exhausted
    /\ game.deck = <<>>
    /\ Len(PileAtDraw) > 2
    /\ game.discardPile = <<Top(PileAtDraw)>>

====
